---------------------------- MODULE Spec2Model ----------------------------
(***************************************************************************)
(* Cart-pole REINFORCE demo (klippx/tfjs-examples, cart-pole).             *)
(*                                                                         *)
(* The module models                                                       *)
(*   - CartPole, the simulator (src/cart-pole/ui.ts, lines 350-568);       *)
(*   - PolicyNetwork.train, the training round                             *)
(*     (src/unnamed/part_000, lines 82-161);                               *)
(*   - the train control of the page (src/cart-pole/ui.ts, lines 188-273). *)
(*                                                                         *)
(* Numbers.  JavaScript numbers are modelled in fixed point: the integer n *)
(* stands for n / Scale.  A product or a quotient of two such numbers is   *)
(* rounded down to the next multiple of 1 / Scale (Mul, Div).  Math.sin    *)
(* and Math.cos are their Taylor polynomials in that arithmetic.           *)
(***************************************************************************)
EXTENDS Integers, Sequences, FiniteSets, TLC

(***************************************************************************)
(* Fixed-point arithmetic.                                                 *)
(***************************************************************************)
Scale == 10 * 100

Mul(a, b) == (a * b) \div Scale

Div(a, b) == (a * Scale) \div b

\* Math.PI
Pi == 3142

\* Math.sin(t)
Sin(t) ==
    LET t2 == Mul(t, t)
        t3 == Mul(t2, t)
        t5 == Mul(t3, t2)
    IN  t - (t3 \div 6) + (t5 \div 120)

\* Math.cos(t)
Cos(t) ==
    LET t2 == Mul(t, t)
        t4 == Mul(t2, t2)
    IN  Scale - (t2 \div 2) + (t4 \div 24)

(***************************************************************************)
(* Math.random().  A call returns a number in [0, 1); the model draws it   *)
(* from the two ends and the middle of that interval (0, 500, 999).        *)
(* RandomVectors are the outcomes of the four consecutive calls made by    *)
(* the constructor and by setRandomState.                                  *)
(***************************************************************************)
RandomVectors ==
    { <<0, 0, 0, 0>>, <<500, 500, 500, 500>>, <<999, 999, 999, 999>> }

(***************************************************************************)
(* CartPole.                                                               *)
(***************************************************************************)

\* The four state variables as drawn by the constructor and setRandomState.
RandomState(r) ==
    [ x        |-> r[1] - 500,
      xDot     |-> Mul(r[2] - 500, 1000),
      theta    |-> Mul((r[3] - 500) * 2, (6 * 2 * Pi) \div 360),
      thetaDot |-> Mul(r[4] - 500, 500) ]

\* new CartPole() with a force magnitude drawn at random for each object.
CartPoleNew_randomForce(r) ==
    [ gravity        |-> 9800,
      massCart       |-> 1000,
      massPole       |-> 100,
      totalMass      |-> 1000 + 100,
      cartWidth      |-> 200,
      cartHeight     |-> 100,
      length         |-> 500,
      poleMoment     |-> Mul(100, 500),
      forceMag       |-> 10000 + r[1],
      tau            |-> 20,
      xThreshold     |-> 2400,
      thetaThreshold |-> (12 * 2 * Pi) \div 360,
      x              |-> r[1] - 500,
      xDot           |-> Mul(r[2] - 500, 1000),
      theta          |-> Mul((r[3] - 500) * 2, (6 * 2 * Pi) \div 360),
      thetaDot       |-> Mul(r[4] - 500, 500) ]

\* new CartPole(): the constants, the thresholds, a random state.
CartPoleNew(r) ==
    [ gravity        |-> 9800,
      massCart       |-> 1000,
      massPole       |-> 100,
      totalMass      |-> 1000 + 100,
      cartWidth      |-> 200,
      cartHeight     |-> 100,
      length         |-> 500,
      poleMoment     |-> Mul(100, 500),
      forceMag       |-> 10000,
      tau            |-> 20,
      xThreshold     |-> 2400,
      thetaThreshold |-> (12 * 2 * Pi) \div 360,
      x              |-> RandomState(r).x,
      xDot           |-> RandomState(r).xDot,
      theta          |-> RandomState(r).theta,
      thetaDot       |-> RandomState(r).thetaDot ]

\* CartPole.setRandomState(): overwrites the four state variables.
setRandomState(s, r) ==
    [ s EXCEPT !.x        = RandomState(r).x,
               !.xDot     = RandomState(r).xDot,
               !.theta    = RandomState(r).theta,
               !.thetaDot = RandomState(r).thetaDot ]

\* CartPole.getStateTensor(): the observation, a fresh 4-vector.
getStateTensor(s) == << s.x, s.xDot, s.theta, s.thetaDot >>

\* isDone without the check of the right-hand position bound.
isDone_noRightBound(s) ==
    \/ s.x < -s.xThreshold
    \/ s.theta < -s.thetaThreshold
    \/ s.theta > s.thetaThreshold

\* CartPole.isDone().
isDone(s) ==
    \/ s.x < -s.xThreshold
    \/ s.x > s.xThreshold
    \/ s.theta < -s.thetaThreshold
    \/ s.theta > s.thetaThreshold

\* The state part of CartPole.update(action): one step of Euler's method.
Integrate(s, action) ==
    LET force    == IF action > 0 THEN s.forceMag ELSE -s.forceMag
        cosTheta == Cos(s.theta)
        sinTheta == Sin(s.theta)
        temp     == Div(force
                          + Mul(Mul(Mul(s.poleMoment, s.thetaDot), s.thetaDot),
                                sinTheta),
                        s.totalMass)
        thetaAcc == Div(Mul(s.gravity, sinTheta) - Mul(cosTheta, temp),
                        Mul(s.length,
                            Div(4 * Scale, 3 * Scale)
                              - Div(Mul(Mul(s.massPole, cosTheta), cosTheta),
                                    s.totalMass)))
        xAcc     == temp - Div(Mul(Mul(s.poleMoment, thetaAcc), cosTheta),
                               s.totalMass)
    IN  [ s EXCEPT !.x        = s.x + Mul(s.tau, s.xDot),
                   !.xDot     = s.xDot + Mul(s.tau, xAcc),
                   !.theta    = s.theta + Mul(s.tau, s.thetaDot),
                   !.thetaDot = s.thetaDot + Mul(s.tau, thetaAcc) ]

\* update that examines the thresholds before it advances the state.
update_stale(s, action) ==
    [ state |-> [ s EXCEPT !.x        = s.x + Mul(s.tau, s.xDot),
                           !.theta    = s.theta + Mul(s.tau, s.thetaDot) ],
      ret   |-> \/ s.x < -s.xThreshold
                \/ s.x > s.xThreshold
                \/ s.theta < -s.thetaThreshold
                \/ s.theta > s.thetaThreshold ]

\* CartPole.update(action): the new state and the value returned.
update(s, action) ==
    LET next == Integrate(s, action)
    IN  [ state |-> next, ret |-> isDone(next) ]

\* The two values of cartPoleCanvas.getContext('2d'): a context, or null.
Context2d == "2d"

NoContext == "null"

\* The width and the height of cartPoleCanvas, in pixels.
CanvasWidth == 6 * 100 * Scale

CanvasHeight == 4 * 100 * Scale

\* What render draws of the state: the x of the cart, the top of the pole.
Frame(s) ==
    LET xRange   == s.xThreshold - (-s.xThreshold)
        scale    == Div(CanvasWidth, xRange)
        halfW    == CanvasWidth \div 2
        railY    == Mul(CanvasHeight, 800)
        cartX    == Mul(s.x, scale) + halfW
        angle    == s.theta + (Pi \div 2)
        poleTopX == halfW + Mul(scale, s.x + Mul(Cos(angle), s.length))
        poleTopY == railY - Mul(scale, (s.cartHeight \div 2)
                                         + Mul(Sin(angle), s.length))
    IN  << cartX, poleTopX, poleTopY >>

\* render that keeps the drawing angle in theta.
render_storesAngle(s, cv, context) ==
    LET shown == [ cv EXCEPT !.display = IF cv.display = "" THEN "block"
                                         ELSE cv.display ]
    IN  IF context = NoContext
        THEN [ state |-> s, canvas |-> shown, threw |-> TRUE ]
        ELSE [ state  |-> [ s EXCEPT !.theta = s.theta + (Pi \div 2) ],
               canvas |-> [ shown EXCEPT !.frame = Frame(s) ],
               threw  |-> FALSE ]

\* CartPole.render(canvas): the object, the canvas, and whether it has thrown
\* (lines 487-490: the canvas has no 2d context).
render(s, cv, context) ==
    LET shown == [ cv EXCEPT !.display = IF cv.display = "" THEN "block"
                                         ELSE cv.display ]
    IN  IF context = NoContext
        THEN [ state |-> s, canvas |-> shown, threw |-> TRUE ]
        ELSE [ state  |-> s,
               canvas |-> [ shown EXCEPT !.frame = Frame(s) ],
               threw  |-> FALSE ]

(***************************************************************************)
(* Bounds of the model.                                                    *)
(***************************************************************************)
\* Largest number of games per call of train.
MaxGames == 2

\* Largest step cap (maxStepsPerGame) of a call of train.
MaxSteps == 7

\* Largest number of calls of train (training iterations) in a run of the model.
MaxIterations == 2

GameCounts == 1 .. MaxGames

StepCaps == {1, MaxSteps}

\* The trainable variables of the policy network, by name.
VarNames == {"kernel", "bias"}

\* The two outcomes of tf.multinomial over [leftProb, 1 - leftProb].
Actions == {0, 1}

VARIABLES
    \* --- the simulator
    cartPole,           \* the CartPole object
    \* --- the policy network
    weights,            \* policyNet's weights: the number of optimizer updates applied to them
    currentActions_,    \* PolicyNetwork.currentActions_ (<<>>: not yet set)
    \* --- the frame of PolicyNetwork.train
    pc,                 \* where train stands
    caller,             \* who called train: "api" (a direct call) or "ui" (the train control)
    numGames, maxStepsPerGame, discountRate,
    i, j,
    allGradients, allRewards, gameSteps,
    gameRewards, gameGradients,
    done,               \* the local isDone of the step
    renderFrame,        \* the render callback is parked on tf.nextFrame()
    \* --- the page
    hpc,                \* where the train control's click handler stands
    iteration,          \* its loop variable i
    trainIterations, gamesPerIteration, maxStepsInput,
    trainButtonText, testDisabled, deleteDisabled,
    stopRequested, renderDuringTraining,
    storedModel,        \* the entry at MODEL_SAVE_PATH_: << the weights saved >>, or NoModel
    appStatus,          \* the message of logStatus
    \* --- observations of the run (not program state)
    calls,              \* calls of train made so far
    resetCalls,         \* calls of setRandomState in this call of train
    updateCalls,        \* calls of CartPole.update in the current game
    renderAwaits,       \* awaits of the render hook in this call of train
    frameAwaits,        \* awaits of tf.nextFrame() by train in this call
    totalUpdates,       \* calls of CartPole.update in this call of train
    optimizerCalls,     \* calls of optimizer.applyGradients in this call of train
    stopInFlight,       \* a stop was requested while a call of train was in flight
    stopGamesLeft,      \* the games of that call not yet folded into the round then
    \* --- the simulator on its own
    simPrev,            \* the CartPole object before its latest update
    simCalls,           \* calls of CartPole.update since the state was last drawn
    twin,               \* a second CartPole object
    twinDone,           \* the value its latest update returned
    inSync,             \* both objects were in the same four-variable state and have
                        \* received the same actions since
    lastCall,           \* the method of CartPole called last ("": none yet)
    observation,        \* the value the latest call returned, if it was getStateTensor
    canvas,             \* cartPoleCanvas: its style.display and the frame drawn on it
    \* --- the reward processor and the gradient aggregator
    normalizedRewards,  \* the value of discountAndNormalizeRewards (train, line 147)
    optimizerInput,     \* the gradients handed to optimizer.applyGradients (line 155)
    discounted,         \* the local discounted of discountAndNormalizeRewards
    \* --- the environment of the page
    learningRate,       \* the number learningRateInput holds
    canvasContext,      \* what cartPoleCanvas.getContext('2d') returns
    renderFailures,     \* calls of CartPole.render that have thrown
    numTensors,         \* gradient tensors of train that are not disposed of
    \* --- SaveablePolicyNetwork called directly
    net,                \* the object the latest construction made (NoNet: none)
    outcome,            \* how the latest call ended: its value or its error
    \* --- the controls of the page and its handlers in flight
    policyNet,          \* the global policyNet: "undefined", "null", or the kind of
                        \* the object it refers to ("built", "bare")
    trainDisabled,      \* trainButton.disabled
    createDisabled,     \* createModelButton.disabled
    running             \* the click handlers parked on an await, oldest first

simVars   == << cartPole >>
netVars   == << weights, currentActions_ >>
argVars   == << caller, numGames, maxStepsPerGame, discountRate >>
frameVars == << i, j, allGradients, allRewards, gameSteps, gameRewards,
                gameGradients, done, renderFrame >>
pageVars  == << hpc, iteration, trainIterations, gamesPerIteration, maxStepsInput,
                trainButtonText, testDisabled, deleteDisabled,
                stopRequested, renderDuringTraining, storedModel, appStatus >>
obsVars   == << calls, resetCalls, updateCalls, renderAwaits, frameAwaits,
                totalUpdates, optimizerCalls, stopInFlight, stopGamesLeft >>
stopVars  == << stopInFlight, stopGamesLeft >>
simLabVars == << simPrev, simCalls, twin, twinDone, inSync >>
cartVars  == << lastCall, observation, canvas >>
roundVars == << normalizedRewards, optimizerInput, discounted >>
envVars   == << learningRate, canvasContext, renderFailures >>
apiVars   == << net, outcome >>
uiVars    == << policyNet, trainDisabled, createDisabled, running >>
labVars   == << simLabVars, cartVars, roundVars, envVars, numTensors, apiVars,
                uiVars >>

vars == << simVars, netVars, pc, argVars, frameVars, pageVars, obsVars, labVars >>

\* No entry at MODEL_SAVE_PATH_.
NoModel == << >>

\* An empty JavaScript object {}.
EmptyRecord == [k \in {} |-> <<>>]

\* cartPoleCanvas before anything is drawn on it.
BlankCanvas == [ display |-> "", frame |-> << >> ]

\* A JavaScript value that is a tf.LayersModel, an Array of numbers or a
\* plain object: its kind, the units of its layers or its numbers, and the
\* one key of the plain object.
Value(kind, units, key) == [ kind |-> kind, units |-> units, key |-> key ]

\* undefined
Undefined == Value("undefined", << >>, "")

\* No SaveablePolicyNetwork constructed yet.
NoNet == [ kind |-> "none", policyNet |-> Undefined ]

\* No call made yet.
NoOutcome == [ call |-> "", supplied |-> "", result |-> "" ]

(***************************************************************************)
(* PolicyNetwork.                                                          *)
(***************************************************************************)

\* pushGradients that puts the new gradients in front of the ones recorded.
pushGradients_prepend(record, gradients) ==
    [ key \in (DOMAIN record) \cup (DOMAIN gradients) |->
        IF key \in DOMAIN gradients
        THEN IF key \in DOMAIN record
             THEN << gradients[key] >> \o record[key]
             ELSE << gradients[key] >>
        ELSE record[key] ]

\* PolicyNetwork.pushGradients(record, gradients).
pushGradients(record, gradients) ==
    [ key \in (DOMAIN record) \cup (DOMAIN gradients) |->
        IF key \in DOMAIN gradients
        THEN IF key \in DOMAIN record
             THEN Append(record[key], gradients[key])
             ELSE << gradients[key] >>
        ELSE record[key] ]

\* The grads of getGradientsAndSaveActions: one gradient tensor per trainable
\* variable.  A tensor is named by the forward pass that produced it.
GradientsOf(game, step) ==
    [ v \in VarNames |-> [ game |-> game, step |-> step ] ]

\* The frame of a call of train that has returned: its locals are gone.
FrameGone ==
    /\ i' = 0
    /\ j' = 0
    /\ allGradients' = EmptyRecord
    /\ allRewards' = <<>>
    /\ gameSteps' = <<>>
    /\ gameRewards' = <<>>
    /\ gameGradients' = EmptyRecord
    /\ done' = FALSE
    /\ renderFrame' = FALSE

\* train, lines 91-94: the accumulators of the round.
TrainBegin ==
    /\ pc = "train"
    /\ allGradients' = EmptyRecord
    /\ allRewards' = <<>>
    /\ gameSteps' = <<>>
    /\ i' = 0
    /\ pc' = "gameLoop"
    /\ resetCalls' = 0
    /\ updateCalls' = 0
    /\ renderAwaits' = 0
    /\ frameAwaits' = 0
    /\ totalUpdates' = 0
    /\ optimizerCalls' = 0
    /\ j' = 0
    /\ gameRewards' = <<>>
    /\ gameGradients' = EmptyRecord
    /\ done' = FALSE
    /\ UNCHANGED << labVars, simVars, netVars, argVars, renderFrame, pageVars, calls,
                    stopVars >>

\* GameBegin with gameRewards and gameGradients declared outside the loop
\* over the games.
GameBegin_hoisted ==
    /\ pc = "gameLoop"
    /\ i < numGames
    /\ \E r \in RandomVectors : cartPole' = setRandomState(cartPole, r)
    /\ j' = 0
    /\ pc' = "stepLoop"
    /\ resetCalls' = resetCalls + 1
    /\ updateCalls' = 0
    /\ UNCHANGED << labVars, netVars, argVars, i, allGradients, allRewards,
                    gameSteps, gameRewards, gameGradients, done, renderFrame,
                    pageVars, calls, renderAwaits, frameAwaits, totalUpdates,
                    optimizerCalls, stopVars >>

\* train, lines 95-100: a game starts.
GameBegin ==
    /\ pc = "gameLoop"
    /\ i < numGames
    /\ \E r \in RandomVectors : cartPole' = setRandomState(cartPole, r)
    /\ gameRewards' = <<>>
    /\ gameGradients' = EmptyRecord
    /\ j' = 0
    /\ pc' = "stepLoop"
    /\ resetCalls' = resetCalls + 1
    /\ updateCalls' = 0
    /\ UNCHANGED << labVars, netVars, argVars, i, allGradients, allRewards, gameSteps,
                    done, renderFrame, pageVars, calls, renderAwaits,
                    frameAwaits, totalUpdates, optimizerCalls, stopVars >>

\* The render hook of the page (ui.ts, lines 234-239) throws: render is
\* called and the canvas has no 2d context (ui.ts, lines 487-490).
HookThrows == renderDuringTraining /\ canvasContext = NoContext

\* train, lines 101-114: one step, up to the await of the render hook.  The
\* gradients of the step leave their tf.tidy and are held from then on.  The
\* hook (ui.ts, lines 234-239) parks on tf.nextFrame() when renderDuringTraining
\* is set, unless render throws, and returns at once otherwise.
Step ==
    /\ pc = "stepLoop"
    /\ j < maxStepsPerGame
    /\ \E a \in Actions :
         /\ currentActions_' = << a >>
         /\ gameGradients' = pushGradients(gameGradients, GradientsOf(i, j))
         /\ cartPole' = update(cartPole, a).state
         /\ done' = update(cartPole, a).ret
    /\ numTensors' = numTensors + Cardinality(VarNames)
    /\ IF HookThrows
       THEN /\ renderFrame' = FALSE
            /\ renderFailures' = renderFailures + 1
            /\ pc' = "renderThrew"
       ELSE /\ renderFrame' = renderDuringTraining
            /\ renderFailures' = renderFailures
            /\ pc' = "awaitRender"
    /\ updateCalls' = updateCalls + 1
    /\ totalUpdates' = totalUpdates + 1
    /\ renderAwaits' = renderAwaits + 1
    /\ UNCHANGED << simLabVars, cartVars, roundVars, learningRate, canvasContext,
                    apiVars, uiVars, weights, argVars, i, j, allGradients, allRewards,
                    gameSteps, gameRewards, pageVars, calls, resetCalls,
                    frameAwaits, optimizerCalls, stopVars >>

\* StepReward that breaks before the reward of the final step is recorded.
StepReward_noTerminalReward ==
    /\ pc = "awaitRender"
    /\ IF done
       THEN /\ gameRewards' = gameRewards
            /\ j' = j
            /\ pc' = "gameEnd"
       ELSE /\ gameRewards' = Append(gameRewards, 1)
            /\ j' = j + 1
            /\ pc' = "stepLoop"
    /\ renderFrame' = FALSE
    /\ UNCHANGED << labVars, simVars, netVars, argVars, i, allGradients,
                    allRewards, gameSteps, gameGradients, done, pageVars,
                    obsVars >>

\* StepReward that does not leave the loop over the steps on a failure.
StepReward_noBreak ==
    /\ pc = "awaitRender"
    /\ gameRewards' = Append(gameRewards, IF done THEN 0 ELSE 1)
    /\ j' = j + 1
    /\ pc' = "stepLoop"
    /\ renderFrame' = FALSE
    /\ UNCHANGED << labVars, simVars, netVars, argVars, i, allGradients,
                    allRewards, gameSteps, gameGradients, done, pageVars,
                    obsVars >>

\* train, lines 116-126: the reward of the step, once the render hook is done.
StepReward ==
    /\ pc = "awaitRender"
    /\ IF done
       THEN /\ gameRewards' = Append(gameRewards, 0)
            /\ j' = j
            /\ pc' = "gameEnd"
       ELSE /\ gameRewards' = Append(gameRewards, 1)
            /\ j' = j + 1
            /\ pc' = "stepLoop"
    /\ renderFrame' = FALSE
    /\ UNCHANGED << labVars, simVars, netVars, argVars, i, allGradients, allRewards,
                    gameSteps, gameGradients, done, pageVars, obsVars >>

\* GameEnd that records the loop variable j as the game's step count.
GameEnd_pushJ ==
    /\ \/ pc = "gameEnd"
       \/ pc = "stepLoop" /\ j >= maxStepsPerGame
    /\ gameSteps' = Append(gameSteps, j)
    /\ allGradients' = pushGradients(allGradients, gameGradients)
    /\ allRewards' = Append(allRewards, gameRewards)
    /\ pc' = "awaitFrame"
    /\ frameAwaits' = frameAwaits + 1
    /\ UNCHANGED << labVars, simVars, netVars, argVars, i, j, gameRewards,
                    gameGradients, done, renderFrame, pageVars, calls,
                    resetCalls, updateCalls, renderAwaits, totalUpdates,
                    optimizerCalls, stopVars >>

\* GameEnd that applies an optimizer update after every game.
GameEnd_update ==
    /\ \/ pc = "gameEnd"
       \/ pc = "stepLoop" /\ j >= maxStepsPerGame
    /\ gameSteps' = Append(gameSteps, Len(gameRewards))
    /\ allGradients' = pushGradients(allGradients, gameGradients)
    /\ allRewards' = Append(allRewards, gameRewards)
    /\ weights' = weights + 1
    /\ optimizerCalls' = optimizerCalls + 1
    /\ pc' = "awaitFrame"
    /\ frameAwaits' = frameAwaits + 1
    /\ UNCHANGED << labVars, simVars, currentActions_, argVars, i, j,
                    gameRewards, gameGradients, done, renderFrame, pageVars,
                    calls, resetCalls, updateCalls, renderAwaits, totalUpdates,
                    stopVars >>

\* GameEnd that goes on to the next game without awaiting a frame.
GameEnd_noFrame ==
    /\ \/ pc = "gameEnd"
       \/ pc = "stepLoop" /\ j >= maxStepsPerGame
    /\ gameSteps' = Append(gameSteps, Len(gameRewards))
    /\ allGradients' = pushGradients(allGradients, gameGradients)
    /\ allRewards' = Append(allRewards, gameRewards)
    /\ i' = i + 1
    /\ pc' = "gameLoop"
    /\ UNCHANGED << labVars, simVars, netVars, argVars, j, gameRewards,
                    gameGradients, done, renderFrame, pageVars, obsVars >>

\* train, lines 128-132: the game is folded into the round; train awaits a frame.
GameEnd ==
    /\ \/ pc = "gameEnd"
       \/ pc = "stepLoop" /\ j >= maxStepsPerGame
    /\ gameSteps' = Append(gameSteps, Len(gameRewards))
    /\ allGradients' = pushGradients(allGradients, gameGradients)
    /\ allRewards' = Append(allRewards, gameRewards)
    /\ pc' = "awaitFrame"
    /\ frameAwaits' = frameAwaits + 1
    /\ UNCHANGED << labVars, simVars, netVars, argVars, i, j, gameRewards, gameGradients,
                    done, renderFrame, pageVars, calls, resetCalls, updateCalls,
                    renderAwaits, totalUpdates, optimizerCalls, stopVars >>

\* NextGame that examines the stop flag before every game and returns early.
NextGame_stopCheck ==
    /\ pc = "awaitFrame"
    /\ IF stopRequested
       THEN /\ i' = i
            /\ pc' = IF caller = "ui" THEN "trained" ELSE "returned"
       ELSE /\ i' = i + 1
            /\ pc' = "gameLoop"
    /\ UNCHANGED << labVars, simVars, netVars, argVars, j, allGradients,
                    allRewards, gameSteps, gameRewards, gameGradients, done,
                    renderFrame, pageVars, obsVars >>

\* train, line 95 (++i) after the frame of line 132.
NextGame ==
    /\ pc = "awaitFrame"
    /\ i' = i + 1
    /\ pc' = "gameLoop"
    /\ UNCHANGED << labVars, simVars, netVars, argVars, j, allGradients, allRewards,
                    gameSteps, gameRewards, gameGradients, done, renderFrame,
                    pageVars, obsVars >>

\* train, lines 135-160: the optimizer update of the round, the gradients
\* held are disposed of (line 159), and the return.
ApplyGradients ==
    /\ pc = "gameLoop"
    /\ i >= numGames
    /\ weights' = weights + 1
    /\ optimizerCalls' = optimizerCalls + 1
    /\ numTensors' = 0
    /\ pc' = IF caller = "ui" THEN "trained" ELSE "returned"
    /\ UNCHANGED << simLabVars, cartVars, roundVars, envVars, apiVars, uiVars,
                    simVars, currentActions_, argVars, frameVars, pageVars,
                    calls, resetCalls, updateCalls, renderAwaits, frameAwaits,
                    totalUpdates, stopVars >>

TrainStep ==
    \/ TrainBegin
    \/ GameBegin
    \/ Step
    \/ StepReward
    \/ GameEnd
    \/ NextGame
    \/ ApplyGradients

(***************************************************************************)
(* train called directly: any number of games, any step cap >= 1, a render *)
(* hook that parks on a frame or not.                                      *)
(***************************************************************************)
TrainCall ==
    /\ pc \in {"idle", "returned"}
    /\ calls < MaxIterations
    /\ \E n \in GameCounts, m \in StepCaps :
         /\ numGames' = n
         /\ maxStepsPerGame' = m
    /\ calls' = calls + 1
    /\ pc' = "train"
    /\ UNCHANGED << labVars, simVars, netVars, caller, discountRate, frameVars,
                    pageVars,
                    resetCalls, updateCalls, renderAwaits, frameAwaits,
                    totalUpdates, optimizerCalls, stopVars >>

\* Everything but the simulator objects.
InitRest ==
    /\ weights = 0
    /\ currentActions_ = <<>>
    /\ pc = "idle"
    /\ numGames = 1
    /\ maxStepsPerGame = 1
    /\ discountRate = 500
    /\ i = 0
    /\ j = 0
    /\ allGradients = EmptyRecord
    /\ allRewards = <<>>
    /\ gameSteps = <<>>
    /\ gameRewards = <<>>
    /\ gameGradients = EmptyRecord
    /\ done = FALSE
    /\ renderFrame = FALSE
    /\ hpc = "idle"
    /\ iteration = 0
    /\ trainIterations = 0
    /\ gamesPerIteration = 0
    /\ maxStepsInput = 0
    /\ trainButtonText = "Train"
    /\ stopRequested = FALSE
    /\ renderDuringTraining = TRUE
    /\ appStatus = ""
    /\ calls = 0
    /\ resetCalls = 0
    /\ updateCalls = 0
    /\ renderAwaits = 0
    /\ frameAwaits = 0
    /\ totalUpdates = 0
    /\ optimizerCalls = 0
    /\ stopInFlight = FALSE
    /\ stopGamesLeft = 0
    /\ simCalls = 0
    /\ twinDone = FALSE
    /\ inSync = FALSE
    /\ lastCall = ""
    /\ observation = << >>
    /\ canvas = BlankCanvas
    /\ normalizedRewards = << >>
    /\ optimizerInput = EmptyRecord
    /\ discounted = << >>
    /\ renderFailures = 0
    /\ numTensors = 0
    /\ net = NoNet
    /\ outcome = NoOutcome

\* The page with a policy network that has been made and no model stored:
\* the train and the test control are enabled, the other two are not, and no
\* handler is in flight.
DefaultPage ==
    /\ policyNet = "built"
    /\ storedModel = NoModel
    /\ trainDisabled = FALSE
    /\ testDisabled = FALSE
    /\ deleteDisabled = TRUE
    /\ createDisabled = TRUE
    /\ running = << >>

\* The page as it is served: a learning rate of 0.05 in learningRateInput, a
\* canvas that has a 2d context.
DefaultEnv ==
    /\ learningRate = 5 * 10
    /\ canvasContext = Context2d

\* setUpUI, line 144: the page constructs its CartPole.
InitCommon ==
    /\ InitRest
    /\ DefaultPage
    /\ DefaultEnv
    /\ \E r \in RandomVectors : cartPole = CartPoleNew(r)
    /\ simPrev = cartPole
    /\ twin = cartPole

TrainInit ==
    /\ InitCommon
    /\ caller = "api"

TrainNext ==
    \/ TrainCall
    \/ TrainStep

TrainSpec == TrainInit /\ [][TrainNext]_vars

(***************************************************************************)
(* The page: the train control (ui.ts, lines 188-273), the render          *)
(* checkbox (lines 153-155).  A click is handled only when no code runs:   *)
(* when every handler is parked on a frame or on the model store.          *)
(***************************************************************************)
IterationInputs == 0 .. MaxIterations

GameInputs == 0 .. MaxGames

\* Largest step cap typed into the page.
MaxStepsInput == 3

\* Largest number of calls of render that throw in a run of the model.
MaxRenderFailures == 1

StepInputs == 1 .. MaxStepsInput

\* Discount rates typed into the page: 0, 0.5 and 1.
DiscountInputs == {0, 500, 1000}

Parked ==
    \/ hpc \in {"idle", "uiFrame", "uiSave", "uiControls"}
    \/ hpc = "inTrain" /\ pc = "awaitFrame"
    \/ hpc = "inTrain" /\ pc = "awaitRender" /\ renderFrame

\* The checks of lines 197-214, with a step cap of 1 let through.
ValidInputs_oneStep(nIter, nGames, nSteps, dRate) ==
    /\ nIter > 0
    /\ nGames > 0
    /\ nSteps >= 1
    /\ dRate > 0 /\ dRate < Scale

\* The checks of lines 197-214.
ValidInputs(nIter, nGames, nSteps, dRate) ==
    /\ nIter > 0
    /\ nGames > 0
    /\ nSteps > 1
    /\ dRate > 0 /\ dRate < Scale

InvalidInputs ==
    { in \in IterationInputs \X GameInputs \X StepInputs \X DiscountInputs :
        ~ValidInputs(in[1], in[2], in[3], in[4]) }

\* A number as a template literal prints it.
NumberString(n) ==
    IF n % Scale = 0 THEN ToString(n \div Scale)
    ELSE ToString(n \div Scale) \o "." \o ToString(n % Scale)

\* The message of the error thrown by the first check of lines 197-214 that
\* fails.
ErrorMessage(nIter, nGames, nSteps, dRate) ==
    IF ~(nIter > 0)
    THEN "Invalid number of iterations: " \o ToString(nIter)
    ELSE IF ~(nGames > 0)
    THEN "Invalid # of games per iterations: " \o ToString(nGames)
    ELSE IF ~(nSteps > 1)
    THEN "Invalid max. steps per game: " \o ToString(nSteps)
    ELSE "Invalid discount rate: " \o NumberString(dRate)

\* A click on the train control showing 'Train', with an input that fails a
\* check of lines 197-214: lines 192-214, 268-271.
TrainClickInvalid ==
    /\ Parked
    /\ hpc = "idle"
    /\ trainButtonText = "Train"
    /\ \E in \in InvalidInputs :
         appStatus' = "ERROR: " \o ErrorMessage(in[1], in[2], in[3], in[4])
    /\ trainButtonText' = "Train"
    /\ testDisabled' = FALSE
    /\ deleteDisabled' = FALSE
    /\ UNCHANGED << labVars, simVars, netVars, pc, argVars, frameVars, hpc, iteration,
                    trainIterations, gamesPerIteration, maxStepsInput,
                    stopRequested, renderDuringTraining, storedModel, obsVars >>

\* A click on the train control showing 'Train', with valid inputs:
\* lines 192-226.
TrainClickValid ==
    /\ Parked
    /\ hpc = "idle"
    /\ trainButtonText = "Train"
    /\ \E nIter \in IterationInputs, nGames \in GameInputs,
          nSteps \in StepInputs, dRate \in DiscountInputs :
         /\ ValidInputs(nIter, nGames, nSteps, dRate)
         /\ weights + nIter <= MaxIterations
         /\ renderFailures < MaxRenderFailures
         /\ trainIterations' = nIter
         /\ gamesPerIteration' = nGames
         /\ maxStepsInput' = nSteps
         /\ discountRate' = dRate
    /\ trainButtonText' = "Stop"
    /\ testDisabled' = TRUE
    /\ deleteDisabled' = TRUE
    /\ appStatus' = "Training policy network..."
    /\ stopRequested' = FALSE
    /\ iteration' = 0
    /\ hpc' = "iterLoop"
    /\ calls' = 0
    /\ stopInFlight' = FALSE
    /\ stopGamesLeft' = 0
    /\ UNCHANGED << labVars, simVars, netVars, pc, caller, numGames, maxStepsPerGame,
                    frameVars, renderDuringTraining, storedModel, resetCalls,
                    updateCalls, renderAwaits, frameAwaits, totalUpdates,
                    optimizerCalls >>

\* A click on the train control showing 'Stop': lines 189-190.
StopClick ==
    /\ Parked
    /\ trainButtonText = "Stop"
    /\ stopRequested' = TRUE
    /\ IF hpc = "inTrain" /\ ~stopInFlight
       THEN /\ stopInFlight' = TRUE
            /\ stopGamesLeft' = numGames - Len(gameSteps)
       ELSE UNCHANGED stopVars
    /\ UNCHANGED << labVars, simVars, netVars, pc, argVars, frameVars, hpc, iteration,
                    trainIterations, gamesPerIteration, maxStepsInput,
                    trainButtonText, testDisabled, deleteDisabled,
                    renderDuringTraining, storedModel, appStatus, calls,
                    resetCalls, updateCalls, renderAwaits, frameAwaits,
                    totalUpdates, optimizerCalls >>

\* The render checkbox changes: lines 153-155.
RenderCheckboxChange ==
    /\ Parked
    /\ renderDuringTraining' = ~renderDuringTraining
    /\ UNCHANGED << labVars, simVars, netVars, pc, argVars, frameVars, hpc, iteration,
                    trainIterations, gamesPerIteration, maxStepsInput,
                    trainButtonText, testDisabled, deleteDisabled,
                    stopRequested, storedModel, appStatus, obsVars >>

\* Lines 227-247: the next iteration calls train.
IterationStart ==
    /\ hpc = "iterLoop"
    /\ iteration < trainIterations
    /\ numGames' = gamesPerIteration
    /\ maxStepsPerGame' = maxStepsInput
    /\ pc' = "train"
    /\ hpc' = "inTrain"
    /\ calls' = calls + 1
    /\ UNCHANGED << labVars, simVars, netVars, caller, discountRate, frameVars,
                    iteration, trainIterations, gamesPerIteration,
                    maxStepsInput, trainButtonText, testDisabled,
                    deleteDisabled, stopRequested, renderDuringTraining,
                    storedModel, appStatus, resetCalls, updateCalls,
                    renderAwaits, frameAwaits, totalUpdates, optimizerCalls,
                    stopVars >>

\* Lines 248-256: train has returned; the handler awaits a frame.
IterationReport ==
    /\ hpc = "inTrain"
    /\ pc = "trained"
    /\ pc' = "idle"
    /\ hpc' = "uiFrame"
    /\ FrameGone
    /\ UNCHANGED << labVars, simVars, netVars, argVars, iteration,
                    trainIterations, gamesPerIteration, maxStepsInput,
                    trainButtonText, testDisabled, deleteDisabled,
                    stopRequested, renderDuringTraining, storedModel,
                    appStatus, obsVars >>

\* Line 257: saveModel is called.
SaveModelStart ==
    /\ hpc = "uiFrame"
    /\ hpc' = "uiSave"
    /\ UNCHANGED << labVars, simVars, netVars, pc, argVars, frameVars, iteration,
                    trainIterations, gamesPerIteration, maxStepsInput,
                    trainButtonText, testDisabled, deleteDisabled,
                    stopRequested, renderDuringTraining, storedModel,
                    appStatus, obsVars >>

\* Lines 257-258, 127: the model is stored; updateUIControlState awaits the
\* status of the store.
SaveModelDone ==
    /\ hpc = "uiSave"
    /\ storedModel' = << weights >>
    /\ hpc' = "uiControls"
    /\ UNCHANGED << labVars, simVars, netVars, pc, argVars, frameVars, iteration,
                    trainIterations, gamesPerIteration, maxStepsInput,
                    trainButtonText, testDisabled, deleteDisabled,
                    stopRequested, renderDuringTraining, appStatus, obsVars >>

\* Lines 128-140 of updateUIControlState, then lines 260-264 and, on a stop,
\* lines 265-271: the stop flag is examined.
IterationEnd ==
    /\ hpc = "uiControls"
    /\ IF stopRequested
       THEN /\ appStatus' = "Training stopped by user."
            /\ trainButtonText' = "Train"
            /\ testDisabled' = FALSE
            /\ deleteDisabled' = FALSE
            /\ iteration' = iteration
            /\ hpc' = "idle"
       ELSE /\ appStatus' = appStatus
            /\ trainButtonText' = trainButtonText
            /\ testDisabled' = FALSE
            /\ deleteDisabled' = (storedModel = NoModel)
            /\ iteration' = iteration + 1
            /\ hpc' = "iterLoop"
    /\ UNCHANGED << labVars, simVars, netVars, pc, argVars, frameVars, trainIterations,
                    gamesPerIteration, maxStepsInput, stopRequested,
                    renderDuringTraining, storedModel, obsVars >>

\* Lines 227, 265-271: the loop ends after its last iteration.
TrainingCompleted ==
    /\ hpc = "iterLoop"
    /\ iteration >= trainIterations
    /\ appStatus' = IF stopRequested THEN appStatus ELSE "Training completed."
    /\ trainButtonText' = "Train"
    /\ testDisabled' = FALSE
    /\ deleteDisabled' = FALSE
    /\ hpc' = "idle"
    /\ UNCHANGED << labVars, simVars, netVars, pc, argVars, frameVars, iteration,
                    trainIterations, gamesPerIteration, maxStepsInput,
                    stopRequested, renderDuringTraining, storedModel, obsVars >>

PageStep ==
    \/ TrainClickInvalid
    \/ TrainClickValid
    \/ StopClick
    \/ RenderCheckboxChange
    \/ IterationStart
    \/ IterationReport
    \/ SaveModelStart
    \/ SaveModelDone
    \/ IterationEnd
    \/ TrainingCompleted

Init ==
    /\ InitCommon
    /\ caller = "ui"

Next ==
    \/ PageStep
    \/ TrainStep

Spec == Init /\ [][Next]_vars

(***************************************************************************)
(* The page in any environment: any number in learningRateInput, and a     *)
(* canvas that has a 2d context or has none.                               *)
(***************************************************************************)
\* The numbers learningRateInput holds: 0 and 0.05.
LearningRates == { 0, 5 * 10 }

EnvInit ==
    /\ InitRest
    /\ DefaultPage
    /\ caller = "ui"
    /\ learningRate \in LearningRates
    /\ canvasContext \in {Context2d, NoContext}
    /\ \E r \in RandomVectors : cartPole = CartPoleNew(r)
    /\ simPrev = cartPole
    /\ twin = cartPole

\* The hook has thrown: the await of line 114 of train throws, train has no
\* handler for it and its promise is rejected; the await of the click
\* handler (ui.ts, line 228) throws in turn, and the handler goes to its
\* catch and to enableModelControls (lines 268-271).  Line 159 of train is
\* not run.
RenderRejects ==
    /\ pc = "renderThrew"
    /\ hpc = "inTrain"
    /\ pc' = "idle"
    /\ hpc' = "idle"
    /\ FrameGone
    /\ appStatus' = "ERROR: Where did the canvas go?"
    /\ trainButtonText' = "Train"
    /\ testDisabled' = FALSE
    /\ deleteDisabled' = FALSE
    /\ UNCHANGED << labVars, simVars, netVars, argVars, iteration,
                    trainIterations, gamesPerIteration, maxStepsInput,
                    stopRequested, renderDuringTraining, storedModel, obsVars >>

EnvNext ==
    \/ Next
    \/ RenderRejects

EnvSpec == EnvInit /\ [][EnvNext]_vars

(***************************************************************************)
(* The simulator on its own: update called on any state.  The states of    *)
(* SimStates are states that calls of update lead to (update is defined on *)
(* every state, also on one that is already past a threshold): the centre, *)
(* each threshold, and Eps beyond each threshold.                          *)
(***************************************************************************)
\* The distance beyond a threshold, in units of 1 / Scale.
Eps == 1

\* Largest number of calls of update on one simulator.
MaxSimSteps == 2

\* Action values passed to update: only the sign matters.
ActionValues == {-1, 0, 1}

SimStates ==
    LET c == CartPoleNew(<<500, 500, 500, 500>>)
    IN  { [ c EXCEPT !.x = px, !.xDot = pxDot, !.theta = pt, !.thetaDot = ptDot ] :
            px \in { -c.xThreshold - Eps, -c.xThreshold, 0,
                     c.xThreshold, c.xThreshold + Eps },
            pxDot \in { -1000, -50, 0, 50, 1000 },
            pt \in { -c.thetaThreshold - Eps, -c.thetaThreshold, 0,
                     c.thetaThreshold, c.thetaThreshold + Eps },
            ptDot \in { -250, 0, 250 } }

\* Neither train nor the page takes a step.
TrainIdle ==
    UNCHANGED << netVars, pc, argVars, i, j, allGradients, allRewards,
                 gameSteps, gameRewards, gameGradients, renderFrame, pageVars,
                 obsVars >>

PageIdle ==
    /\ TrainIdle
    /\ UNCHANGED << cartVars, roundVars, envVars, numTensors, apiVars, uiVars >>

SimInit ==
    /\ InitRest
    /\ DefaultPage
    /\ DefaultEnv
    /\ caller = "api"
    /\ cartPole \in SimStates
    /\ simPrev = cartPole
    /\ twin = cartPole

\* cartPole.update(a).
SimUpdate ==
    /\ simCalls < MaxSimSteps
    /\ \E a \in ActionValues :
         /\ cartPole' = update(cartPole, a).state
         /\ done' = update(cartPole, a).ret
    /\ simPrev' = cartPole
    /\ simCalls' = simCalls + 1
    /\ PageIdle
    /\ UNCHANGED << twin, twinDone, inSync >>

\* cartPole.setRandomState().
SimSetRandomState ==
    /\ \E r \in RandomVectors : cartPole' = setRandomState(cartPole, r)
    /\ simCalls' = 0
    /\ done' = FALSE
    /\ PageIdle
    /\ UNCHANGED << simPrev, twin, twinDone, inSync >>

SimNext ==
    \/ SimUpdate
    \/ SimSetRandomState

SimSpec == SimInit /\ [][SimNext]_vars

(***************************************************************************)
(* Two simulators, each constructed on its own, stepped with the same      *)
(* actions.                                                                *)
(***************************************************************************)
\* Largest number of calls of update on each of the two simulators.
MaxTwinSteps == 6

SameState(s, t) == getStateTensor(s) = getStateTensor(t)

TwinInit ==
    /\ InitRest
    /\ DefaultPage
    /\ DefaultEnv
    /\ caller = "api"
    /\ \E r \in RandomVectors : cartPole = CartPoleNew(r)
    /\ \E r \in RandomVectors : twin = CartPoleNew(r)
    /\ simPrev = cartPole

\* cartPole.update(a) and twin.update(a).
TwinUpdate ==
    /\ simCalls < MaxTwinSteps
    /\ \E a \in ActionValues :
         /\ cartPole' = update(cartPole, a).state
         /\ done' = update(cartPole, a).ret
         /\ twin' = update(twin, a).state
         /\ twinDone' = update(twin, a).ret
    /\ inSync' = (inSync \/ (simCalls = 0 /\ SameState(cartPole, twin)))
    /\ simPrev' = cartPole
    /\ simCalls' = simCalls + 1
    /\ PageIdle

\* cartPole.setRandomState() and twin.setRandomState(): the comparison starts anew.
TwinSetRandomState ==
    /\ \E r \in RandomVectors : cartPole' = setRandomState(cartPole, r)
    /\ \E r \in RandomVectors : twin' = setRandomState(twin, r)
    /\ done' = FALSE
    /\ twinDone' = FALSE
    /\ inSync' = FALSE
    /\ simCalls' = 0
    /\ simPrev' = simPrev
    /\ PageIdle

TwinNext ==
    \/ TwinUpdate
    \/ TwinSetRandomState

TwinSpec == TwinInit /\ [][TwinNext]_vars

(***************************************************************************)
(* The four methods of CartPole called in any order on one object, with a  *)
(* canvas that has a 2d context or has none.                               *)
(***************************************************************************)
\* Largest number of calls of update between two calls of setRandomState.
MaxCartSteps == 3

CartIdle ==
    /\ TrainIdle
    /\ UNCHANGED << twin, twinDone, inSync, roundVars, learningRate,
                    canvasContext, renderFailures, numTensors, apiVars, uiVars >>

CartInit ==
    /\ InitRest
    /\ DefaultPage
    /\ caller = "api"
    /\ learningRate = 5 * 10
    /\ canvasContext \in {Context2d, NoContext}
    /\ \E r \in RandomVectors : cartPole = CartPoleNew(r)
    /\ simPrev = cartPole
    /\ twin = cartPole

\* cartPole.update(a).
CartUpdate ==
    /\ simCalls < MaxCartSteps
    /\ \E a \in ActionValues :
         /\ cartPole' = update(cartPole, a).state
         /\ done' = update(cartPole, a).ret
    /\ simPrev' = cartPole
    /\ simCalls' = simCalls + 1
    /\ lastCall' = "update"
    /\ observation' = << >>
    /\ canvas' = canvas
    /\ CartIdle

\* cartPole.setRandomState().
CartSetRandomState ==
    /\ \E r \in RandomVectors : cartPole' = setRandomState(cartPole, r)
    /\ simPrev' = cartPole
    /\ simCalls' = 0
    /\ done' = FALSE
    /\ lastCall' = "setRandomState"
    /\ observation' = << >>
    /\ canvas' = canvas
    /\ CartIdle

\* cartPole.getStateTensor().
CartGetStateTensor ==
    /\ observation' = getStateTensor(cartPole)
    /\ lastCall' = "getStateTensor"
    /\ UNCHANGED << cartPole, simPrev, simCalls, done, canvas >>
    /\ CartIdle

\* cartPole.render(cartPoleCanvas).
CartRender ==
    /\ cartPole' = render(cartPole, canvas, canvasContext).state
    /\ canvas' = render(cartPole, canvas, canvasContext).canvas
    /\ lastCall' = "render"
    /\ observation' = << >>
    /\ UNCHANGED << simPrev, simCalls, done >>
    /\ CartIdle

CartNext ==
    \/ CartUpdate
    \/ CartSetRandomState
    \/ CartGetStateTensor
    \/ CartRender

CartSpec == CartInit /\ [][CartNext]_vars

(***************************************************************************)
(* The reward processor and the gradient aggregator (part_000, lines       *)
(* 255-345).  The value of a tensor element is a number that may be not    *)
(* finite: Fin(n) is n / Scale, NaN is the result of 0 / 0, Inf(sign) the  *)
(* result of a division of a number that is not 0 by 0.                    *)
(***************************************************************************)
Fin(n) == [ kind |-> "fin", val |-> n ]

NaN == [ kind |-> "nan", val |-> 0 ]

Inf(sign) == [ kind |-> "inf", val |-> sign ]

Sign(n) == IF n > 0 THEN 1 ELSE IF n < 0 THEN -1 ELSE 0

\* a / b of two finite numbers.
FDiv(a, b) ==
    IF b # 0 THEN Fin(Div(a, b))
    ELSE IF a = 0 THEN NaN
    ELSE Inf(Sign(a))

\* r * g, g finite.
FMul(r, g) ==
    CASE r.kind = "fin" -> Fin(Mul(r.val, g))
      [] r.kind = "nan" -> NaN
      [] r.kind = "inf" -> IF g = 0 THEN NaN ELSE Inf(r.val * Sign(g))

RECURSIVE SumSeq(_)
SumSeq(q) == IF q = <<>> THEN 0 ELSE Head(q) + SumSeq(Tail(q))

\* tf.concat of a list of 1D tensors.
RECURSIVE Concat(_)
Concat(qs) == IF qs = <<>> THEN <<>> ELSE Head(qs) \o Concat(Tail(qs))

\* tf.mean of a 1D tensor of finite numbers.
Mean(q) == SumSeq(q) \div Len(q)

\* tf.mean of a 1D tensor.
FMean(q) ==
    LET kinds == { q[k].kind : k \in 1 .. Len(q) }
        infs  == { q[k].val : k \in { n \in 1 .. Len(q) : q[n].kind = "inf" } }
    IN  IF "nan" \in kinds \/ infs = {-1, 1} THEN NaN
        ELSE IF infs # {} THEN Inf(CHOOSE sg \in infs : TRUE)
        ELSE Fin(SumSeq([ k \in 1 .. Len(q) |-> q[k].val ]) \div Len(q))

\* tf.sqrt of a finite number that is not negative: the largest r with
\* r * r <= n, in fixed point, found by bisection.
RECURSIVE SqrtBetween(_, _, _)
SqrtBetween(n, lo, hi) ==
    IF hi - lo <= 1 THEN lo
    ELSE LET mid == (lo + hi) \div 2
         IN  IF mid * mid <= n * Scale
             THEN SqrtBetween(n, mid, hi)
             ELSE SqrtBetween(n, lo, mid)

Sqrt(n) == SqrtBetween(n, 0, n + Scale + 1)

\* The loop of discountRewards, lines 258-262; index k is rewards[k - 1].
RECURSIVE discountLoop(_, _, _, _, _)
discountLoop(rewards, rate, k, prev, discountedBuffer) ==
    IF k < 1 THEN discountedBuffer
    ELSE LET current == Mul(rate, prev) + rewards[k] * Scale
         IN  discountLoop(rewards, rate, k - 1, current,
                          [ discountedBuffer EXCEPT ![k] = current ])

\* discountRewards that walks the rewards from the first to the last.
RECURSIVE discountLoop_forward(_, _, _, _, _)
discountLoop_forward(rewards, rate, k, prev, discountedBuffer) ==
    IF k > Len(rewards) THEN discountedBuffer
    ELSE LET current == Mul(rate, prev) + rewards[k] * Scale
         IN  discountLoop_forward(rewards, rate, k + 1, current,
                                  [ discountedBuffer EXCEPT ![k] = current ])

discountRewards_forward(rewards, rate) ==
    discountLoop_forward(rewards, rate, 1, 0, [ k \in 1 .. Len(rewards) |-> 0 ])

\* discountRewards(rewards, discountRate), lines 255-264.
discountRewards(rewards, rate) ==
    discountLoop(rewards, rate, Len(rewards), 0,
                 [ k \in 1 .. Len(rewards) |-> 0 ])

\* Lines 285-288 of discountAndNormalizeRewards: the list discounted.
DiscountAll(rewardSequences, rate) ==
    [ g \in 1 .. Len(rewardSequences) |->
        discountRewards(rewardSequences[g], rate) ]

\* The square root of the mean of the squares of the distances to the mean
\* (line 292).
Std(concatenated) ==
    LET mean == Mean(concatenated)
    IN  Sqrt(Mean([ k \in 1 .. Len(concatenated) |->
                      Mul(concatenated[k] - mean, concatenated[k] - mean) ]))

\* Normalization that divides by 1 when the standard deviation is 0.
Normalize_guarded(discountedList) ==
    LET concatenated == Concat(discountedList)
        mean         == Mean(concatenated)
        std          == Std(concatenated)
    IN  [ g \in 1 .. Len(discountedList) |->
            [ k \in 1 .. Len(discountedList[g]) |->
                FDiv(discountedList[g][k] - mean,
                     IF std = 0 THEN Scale ELSE std) ] ]

\* Lines 290-295 of discountAndNormalizeRewards.
Normalize(discountedList) ==
    LET concatenated == Concat(discountedList)
        mean         == Mean(concatenated)
        std          == Std(concatenated)
    IN  [ g \in 1 .. Len(discountedList) |->
            [ k \in 1 .. Len(discountedList[g]) |->
                FDiv(discountedList[g][k] - mean, std) ] ]

\* discountAndNormalizeRewards(rewardSequences, discountRate), lines 280-297.
discountAndNormalizeRewards(rewardSequences, rate) ==
    Normalize(DiscountAll(rewardSequences, rate))

\* Lines 322-337: the gradients of one variable, game by game, each scaled
\* by the normalized reward of its step.
ScaledGradients(varGradients, reshapedNormalizedRewards) ==
    [ g \in 1 .. Len(varGradients) |->
        [ k \in 1 .. Len(varGradients[g]) |->
            FMul(reshapedNormalizedRewards[g][k], varGradients[g][k]) ] ]

\* scaleAndAverageGradients that averages each game, then the games.
scaleAndAverageGradients_perGame(gradients, normalized) ==
    [ varName \in DOMAIN gradients |->
        LET scaled == ScaledGradients(gradients[varName], normalized)
        IN  FMean([ g \in 1 .. Len(scaled) |-> FMean(scaled[g]) ]) ]

\* scaleAndAverageGradients(allGradients, normalizedRewards), lines 313-345.
scaleAndAverageGradients(gradients, normalized) ==
    [ varName \in DOMAIN gradients |->
        FMean(Concat(ScaledGradients(gradients[varName], normalized))) ]

(***************************************************************************)
(* The end of a round on its own: the games of a call of train are played  *)
(* in one step (the rewards and the gradients they record are drawn), then *)
(* lines 135-160 run on what they recorded.  scaleAndAverageGradients is   *)
(* also called directly, on normalized rewards that are finite.            *)
(***************************************************************************)
\* Largest number of games of a round.
MaxRoundGames == 2

\* Largest number of steps of a game of a round.
MaxRoundSteps == 2

\* The discount rates of a round: 0.5 and 0.9.
RoundRates == { 5 * 100, 9 * 100 }

\* The values of a gradient tensor: -2 and 1.
GradientDraws == { 0 - 2 * Scale, Scale }

\* The values of a normalized reward passed to scaleAndAverageGradients
\* directly: -1 and 0.5.
AdvantageDraws == { Fin(0 - Scale), Fin(Scale \div 2) }

\* The gradients of one step: one tensor per trainable variable.
StepGradients(d) ==
    [ v \in VarNames |-> IF v = "kernel" THEN d ELSE 0 - (d \div 2) ]

\* The rewards of a game of n steps (lines 116-126): 1 for every step but the
\* last, and last for the last.
GameRewards(n, last) == [ s \in 1 .. n |-> IF s < n THEN 1 ELSE last ]

\* The games a round can be made of: the rewards and the gradients recorded.
RoundEpisodes ==
    UNION { { [ rewards |-> GameRewards(n, last), draws |-> ds ] :
                last \in {0, 1}, ds \in [ 1 .. n -> GradientDraws ] } :
            n \in 1 .. MaxRoundSteps }

\* gameGradients after the steps of a game (line 110, step after step).
RECURSIVE GameGradientsOf(_, _)
GameGradientsOf(draws, n) ==
    IF n = 0 THEN EmptyRecord
    ELSE pushGradients(GameGradientsOf(draws, n - 1), StepGradients(draws[n]))

\* allGradients after the games of a round (line 131, game after game).
RECURSIVE AllGradientsOf(_, _)
AllGradientsOf(episodes, n) ==
    IF n = 0 THEN EmptyRecord
    ELSE pushGradients(AllGradientsOf(episodes, n - 1),
                       GameGradientsOf(episodes[n].draws, Len(episodes[n].draws)))

RoundIdle ==
    UNCHANGED << simVars, currentActions_, caller, maxStepsPerGame, i, j,
                 gameRewards, gameGradients, done, renderFrame, pageVars,
                 resetCalls, updateCalls, renderAwaits, frameAwaits,
                 stopVars, simLabVars, cartVars, envVars, apiVars, uiVars >>

RoundInit ==
    /\ InitCommon
    /\ caller = "api"

\* train, lines 91-133: the games of the round.
RoundRollouts ==
    /\ pc = "idle"
    /\ \E n \in 1 .. MaxRoundGames :
         \E episodes \in [ 1 .. n -> RoundEpisodes ] :
           /\ numGames' = n
           /\ allRewards' = [ g \in 1 .. n |-> episodes[g].rewards ]
           /\ allGradients' = AllGradientsOf(episodes, n)
           /\ gameSteps' = [ g \in 1 .. n |-> Len(episodes[g].rewards) ]
    /\ \E rate \in RoundRates : discountRate' = rate
    /\ numTensors' = Cardinality(VarNames) * SumSeq(gameSteps')
    /\ totalUpdates' = SumSeq(gameSteps')
    /\ calls' = calls + 1
    /\ pc' = "tidy"
    /\ UNCHANGED << weights, optimizerCalls, roundVars >>
    /\ RoundIdle

\* train, lines 135-160: the rewards are discounted and normalized, the
\* gradients scaled and averaged and handed to the optimizer, the snapshots
\* disposed of, and gameSteps returned.
RoundTidy ==
    /\ pc = "tidy"
    /\ discounted' = DiscountAll(allRewards, discountRate)
    /\ normalizedRewards' = discountAndNormalizeRewards(allRewards, discountRate)
    /\ optimizerInput' = scaleAndAverageGradients(allGradients, normalizedRewards')
    /\ weights' = weights + 1
    /\ optimizerCalls' = optimizerCalls + 1
    /\ numTensors' = 0
    /\ pc' = "returned"
    /\ UNCHANGED << numGames, discountRate, allRewards, allGradients, gameSteps,
                    totalUpdates, calls >>
    /\ RoundIdle

\* scaleAndAverageGradients(allGradients, normalizedRewards) called on the
\* gradients of one game and on normalized rewards that are finite.
ScaleCall ==
    /\ pc = "idle"
    /\ \E e \in RoundEpisodes :
         \E advantages \in [ 1 .. Len(e.rewards) -> AdvantageDraws ] :
           /\ allGradients' = AllGradientsOf(<< e >>, 1)
           /\ gameSteps' = << Len(e.rewards) >>
           /\ allRewards' = << e.rewards >>
           /\ normalizedRewards' = << advantages >>
    /\ optimizerInput' = scaleAndAverageGradients(allGradients', normalizedRewards')
    /\ pc' = "called"
    /\ UNCHANGED << weights, optimizerCalls, numGames, discountRate, discounted,
                    numTensors, totalUpdates, calls >>
    /\ RoundIdle

RoundNext ==
    \/ RoundRollouts
    \/ RoundTidy
    \/ ScaleCall

RoundSpec == RoundInit /\ [][RoundNext]_vars

(***************************************************************************)
(* PolicyNetwork and SaveablePolicyNetwork called directly: construction   *)
(* (part_000 lines 28-63, ui.ts lines 584-601), saveModel, loadModel,      *)
(* checkStoredModelStatus and removeModel (ui.ts lines 606-644).           *)
(*                                                                         *)
(* Two things are not decided by the code under src/ and are drawn anew at *)
(* every construction.  What tf.layers.dense does with units that are not  *)
(* a number: it throws ("strict") or it builds the layer ("lenient").      *)
(* What a derived constructor that returns without having called super     *)
(* does: it throws a ReferenceError (classes of "ES2015") or it returns    *)
(* the object without the fields of the base class (classes compiled to    *)
(* "ES5" functions).                                                       *)
(***************************************************************************)
Libraries == {"strict", "lenient"}

Languages == {"ES2015", "ES5"}

\* The hidden layer sizes a caller passes.
SizeLists == { << 4 >>, << 4, 2 >> }

\* What a caller supplies to the constructor of SaveablePolicyNetwork.
Supplies == {"neither", "layersModel", "sizes", "both"}

\* A PolicyNetwork object: kind "built".  An object of the derived class that
\* the base constructor never ran on: kind "bare".  No object, because the
\* constructor threw: kind "none", and the error thrown.
Built(network) == [ net |-> [ kind |-> "built", policyNet |-> network ],
                      result |-> "constructed" ]

Threw(error) == [ net |-> NoNet, result |-> error ]

\* createPolicyNetwork(hiddenLayerSizes), part_000 lines 43-63.  A value
\* that is not an Array is wrapped in one; every element becomes the units
\* of a dense layer.
createPolicyNetwork(hiddenLayerSizes, library) ==
    IF hiddenLayerSizes.kind = "Array"
    THEN Built(Value("LayersModel", hiddenLayerSizes.units, ""))
    ELSE IF library = "strict"
    THEN Threw("ValueError")
    ELSE Built(Value("LayersModel", << hiddenLayerSizes.kind >>, hiddenLayerSizes.key))

\* new PolicyNetwork(hiddenLayerSizesOrModel), part_000 lines 28-34.
PolicyNetworkNew(hiddenLayerSizesOrModel, library) ==
    IF hiddenLayerSizesOrModel.kind = "LayersModel"
    THEN Built(hiddenLayerSizesOrModel)
    ELSE createPolicyNetwork(hiddenLayerSizesOrModel, library)

\* new SaveablePolicyNetwork({layersModel, sizes}), ui.ts lines 584-601.  The
\* base constructor receives a new object that holds the value, not the
\* value.
SaveablePolicyNetworkNew(supplied, library, language) ==
    IF supplied \in {"layersModel", "both"}
    THEN PolicyNetworkNew(Value("Object", << >>, "layersModel"), library)
    ELSE IF supplied = "sizes"
    THEN PolicyNetworkNew(Value("Object", << >>, "sizes"), library)
    ELSE IF language = "ES2015"
    THEN Threw("ReferenceError")
    ELSE [ net |-> [ kind |-> "bare", policyNet |-> Undefined ],
           result |-> "constructed" ]

\* The error of loadModel, line 624.
CannotFindModel == "Cannot find model at indexeddb://cart-pole-v1."

\* loadModel that makes a new network when no model is stored.
loadModel_fresh(stored, library, language) ==
    IF stored # NoModel
    THEN SaveablePolicyNetworkNew("layersModel", library, language)
    ELSE SaveablePolicyNetworkNew("sizes", library, language)

\* SaveablePolicyNetwork.loadModel(), ui.ts lines 616-626.
loadModel(stored, library, language) ==
    IF stored # NoModel
    THEN SaveablePolicyNetworkNew("layersModel", library, language)
    ELSE Threw(CannotFindModel)

\* SaveablePolicyNetwork.checkStoredModelStatus(), ui.ts lines 634-637: the
\* entry of tf.io.listModels() at the path, undefined when there is none.
checkStoredModelStatus(stored) ==
    IF stored # NoModel THEN "modelInfo" ELSE "undefined"

NetIdle ==
    UNCHANGED << simVars, netVars, pc, argVars, frameVars, hpc, iteration,
                 trainIterations, gamesPerIteration, maxStepsInput,
                 trainButtonText, testDisabled, deleteDisabled, stopRequested,
                 renderDuringTraining, appStatus, obsVars, simLabVars,
                 cartVars, roundVars, envVars, numTensors, uiVars >>

NetInit ==
    /\ InitCommon
    /\ caller = "api"

\* new PolicyNetwork(x), x a tf.LayersModel or an Array of sizes.
PolicyNetworkConstruct ==
    /\ \E kind \in {"LayersModel", "Array"}, units \in SizeLists,
          library \in Libraries :
         LET made == PolicyNetworkNew(Value(kind, units, ""), library)
         IN  /\ net' = IF made.net = NoNet THEN net ELSE made.net
             /\ outcome' = [ call |-> "PolicyNetwork", supplied |-> kind,
                             result |-> made.result ]
    /\ UNCHANGED storedModel
    /\ NetIdle

\* policyNet = new SaveablePolicyNetwork(...): the variable keeps its value
\* when the constructor throws.
SaveableConstruct ==
    /\ \E supplied \in Supplies, library \in Libraries, language \in Languages :
         LET made == SaveablePolicyNetworkNew(supplied, library, language)
         IN  /\ net' = IF made.net = NoNet THEN net ELSE made.net
             /\ outcome' = [ call |-> "SaveablePolicyNetwork",
                             supplied |-> supplied, result |-> made.result ]
    /\ UNCHANGED storedModel
    /\ NetIdle

\* policyNet = await SaveablePolicyNetwork.loadModel().
LoadModel ==
    /\ \E library \in Libraries, language \in Languages :
         LET made == loadModel(storedModel, library, language)
         IN  /\ net' = IF made.net = NoNet THEN net ELSE made.net
             /\ outcome' = [ call |-> "loadModel", supplied |-> "",
                             result |-> made.result ]
    /\ UNCHANGED storedModel
    /\ NetIdle

\* await SaveablePolicyNetwork.checkStoredModelStatus().
CheckStoredModelStatus ==
    /\ outcome' = [ call |-> "checkStoredModelStatus", supplied |-> "",
                    result |-> checkStoredModelStatus(storedModel) ]
    /\ UNCHANGED << net, storedModel >>
    /\ NetIdle

\* await policyNet.saveModel(), line 607: this.policyNet.save.
SaveModel ==
    /\ net # NoNet
    /\ IF net.kind = "built"
       THEN /\ storedModel' = << weights >>
            /\ outcome' = [ call |-> "saveModel", supplied |-> "",
                            result |-> "saved" ]
       ELSE /\ storedModel' = storedModel
            /\ outcome' = [ call |-> "saveModel", supplied |-> "",
                            result |-> "TypeError" ]
    /\ UNCHANGED net
    /\ NetIdle

\* await policyNet.removeModel(), line 643.
RemoveModel ==
    /\ net # NoNet
    /\ storedModel' = NoModel
    /\ outcome' = [ call |-> "removeModel", supplied |-> "",
                    result |-> "removed" ]
    /\ UNCHANGED net
    /\ NetIdle

NetNext ==
    \/ PolicyNetworkConstruct
    \/ SaveableConstruct
    \/ LoadModel
    \/ CheckStoredModelStatus
    \/ SaveModel
    \/ RemoveModel

NetSpec == NetInit /\ [][NetNext]_vars

(***************************************************************************)
(* The four controls of the page together: the click handlers of the       *)
(* train, test, create-model and delete-stored-model controls (ui.ts,      *)
(* lines 157-308), any number of them in flight.  JavaScript runs a        *)
(* handler from one await to the next without interruption: an action is a *)
(* click, run up to the first await that parks the handler, or the run of  *)
(* a parked handler from its await to the next one.                        *)
(*                                                                         *)
(* What the controls do not depend on is left out here: a call of train is *)
(* one parking (its frames) followed by its optimizer update, the          *)
(* simulator and the counters that observe train are not kept, and the     *)
(* click on the train control draws the number of iterations only, its     *)
(* other inputs being valid.  renderDuringTraining keeps its value.        *)
(***************************************************************************)
\* Largest number of handlers parked at a time.
MaxInFlight == 2

\* Largest number of passes of the loop of a test.
MaxTestSteps == 2

\* Largest number of optimizer updates in a run of the model.
MaxUpdates == 3

\* What tf.io.removeModel does when no model is stored at the path.
Removals == {"rejects", "resolves"}

\* A handler parked on an await: its kind ("train", "test", "delete",
\* "create"), the await it is parked at, its loop variable (i of the train
\* handler, steps of the test handler), its bound (trainIterations; isDone
\* of the test handler, 1 for true), and the calls of saveModel it has
\* completed.
Handler(kind, at, loopVar, bound, saved) ==
    [ kind |-> kind, at |-> at, i |-> loopVar, n |-> bound, saved |-> saved ]

\* The page: its controls (the text of the train control and the disabled
\* flags of the four controls), appStatus, stopRequested, the model store,
\* policyNet, the handlers parked, the weights of the network built.
Page ==
    [ c       |-> [ text   |-> trainButtonText,
                    train  |-> trainDisabled,
                    test   |-> testDisabled,
                    delete |-> deleteDisabled,
                    create |-> createDisabled ],
      status  |-> appStatus,
      stop    |-> stopRequested,
      stored  |-> storedModel,
      net     |-> policyNet,
      running |-> running,
      weights |-> weights ]

\* disableModelControls(), ui.ts lines 114-118.
disableModelControls(c) ==
    [ c EXCEPT !.text = "Stop", !.test = TRUE, !.delete = TRUE ]

\* enableModelControls(), ui.ts lines 120-124.
enableModelControls(c) ==
    [ c EXCEPT !.text = "Train", !.test = FALSE, !.delete = FALSE ]

\* policyNet == null
IsNullish(pn) == pn \in {"undefined", "null"}

\* updateUIControlState(), ui.ts lines 128-140: what it does once
\* checkStoredModelStatus has answered.
updateUIControlState(c, stored, pn) ==
    [ c EXCEPT !.delete = (stored = NoModel),
               !.create = ~IsNullish(pn),
               !.train = IsNullish(pn),
               !.test = IsNullish(pn) ]

\* q without its k-th element.
RemoveAt(q, k) == SubSeq(q, 1, k - 1) \o SubSeq(q, k + 1, Len(q))

\* The handlers parked, once the handler that runs (the k-th, or a new one
\* when k = 0) has parked as h.
Put(st, h, k) ==
    IF k = 0 THEN Append(st.running, h) ELSE [ st.running EXCEPT ![k] = h ]

\* The handlers parked, once the handler that runs has ended.
Drop(st, k) ==
    IF k = 0 THEN st.running ELSE RemoveAt(st.running, k)

\* The catch of the train handler, then line 271: ui.ts lines 268-271.
CatchInTrain(st, k, message) ==
    [ st EXCEPT !.status = "ERROR: " \o message,
                !.c = enableModelControls(st.c),
                !.running = Drop(st, k) ]

\* The train handler at the head of its loop, ui.ts lines 227-247 and
\* 265-271: the loop ends, or train is called.  The call throws a TypeError
\* when policyNet is null or undefined, or refers to an object without a
\* network of its own; it throws the error of render when the hook throws;
\* it parks the handler otherwise.
trainLoop(st, h, k, hookThrows) ==
    IF h.i < h.n
    THEN IF st.net # "built"
         THEN CatchInTrain(st, k, "TypeError")
         ELSE IF hookThrows
         THEN CatchInTrain(st, k, "Where did the canvas go?")
         ELSE [ st EXCEPT !.running = Put(st, [ h EXCEPT !.at = "inTrain" ], k) ]
    ELSE [ st EXCEPT !.status = "Training completed.",
                     !.c = enableModelControls(st.c),
                     !.running = Drop(st, k) ]

\* The click handler of the train control, ui.ts lines 188-273, up to its
\* first parking.
trainClick(st, nIter, hookThrows) ==
    IF st.c.text = "Stop"
    THEN [ st EXCEPT !.stop = TRUE ]
    ELSE LET disabled == [ st EXCEPT !.c = disableModelControls(st.c) ]
         IN  IF st.net = "null"
             THEN disabled
             ELSE IF ~(nIter > 0)
             THEN CatchInTrain(disabled, 0,
                               "Invalid number of iterations: " \o ToString(nIter))
             ELSE trainLoop([ disabled EXCEPT
                                !.status = "Training policy network...",
                                !.stop = FALSE ],
                            Handler("train", "", 0, nIter, 0), 0, hookThrows)

\* The train handler from an await to the next one: train returns (lines
\* 248-256), saveModel is called (257), the model is stored and
\* updateUIControlState is called (257-258), the controls are updated and
\* the stop flag is examined (258-264, then the head of the loop).
trainResume(st, k, hookThrows) ==
    LET h == st.running[k]
    IN  CASE h.at = "inTrain" ->
               [ st EXCEPT !.weights = @ + 1,
                           !.running[k] = [ h EXCEPT !.at = "uiFrame" ] ]
          [] h.at = "uiFrame" ->
               IF st.net = "built"
               THEN [ st EXCEPT !.running[k] = [ h EXCEPT !.at = "uiSave" ] ]
               ELSE CatchInTrain(st, k, "TypeError")
          [] h.at = "uiSave" ->
               [ st EXCEPT !.stored = << st.weights >>,
                           !.running[k] = [ h EXCEPT !.at = "uiControls",
                                                     !.saved = @ + 1 ] ]
          [] h.at = "uiControls" ->
               LET updated ==
                     [ st EXCEPT !.c = updateUIControlState(st.c, st.stored, st.net) ]
               IN  IF st.stop
                   THEN [ updated EXCEPT
                            !.status = "Training stopped by user.",
                            !.c = enableModelControls(updated.c),
                            !.running = Drop(st, k) ]
                   ELSE trainLoop(updated, [ h EXCEPT !.i = @ + 1 ], k, hookThrows)

\* One pass of the loop of the test handler, ui.ts lines 282-295, up to its
\* await: the tidy throws when policyNet is not a network that can act and
\* when render throws, and nothing catches it.
testPass(st, h, k, hookThrows, fallen) ==
    IF st.net # "built"
    THEN [ st EXCEPT !.running = Drop(st, k) ]
    ELSE LET logged ==
               [ st EXCEPT !.status =
                   "Test in progress. (Step " \o ToString(h.i + 1) \o ")" ]
         IN  IF hookThrows
             THEN [ logged EXCEPT !.running = Drop(st, k) ]
             ELSE [ logged EXCEPT !.running =
                      Put(st, [ h EXCEPT !.at = "testFrame", !.i = @ + 1,
                                         !.n = IF fallen THEN 1 ELSE 0 ], k) ]

\* The click handler of the test control, ui.ts lines 275-295, up to its
\* first parking.
testClick(st, hookThrows, fallen) ==
    testPass([ st EXCEPT !.c = disableModelControls(st.c), !.stop = FALSE ],
             Handler("test", "", 0, 0, 0), 0, hookThrows, fallen)

\* The test handler from its await on: ui.ts lines 296-307.
testResume(st, k, hookThrows, fallen) ==
    LET h == st.running[k]
    IN  IF st.stop
        THEN [ st EXCEPT !.status = "Test stopped by user after "
                                        \o ToString(h.i) \o " step(s).",
                         !.c = enableModelControls(st.c),
                         !.running = Drop(st, k) ]
        ELSE IF h.n = 1
        THEN [ st EXCEPT !.status = "Test finished. Survived "
                                        \o ToString(h.i) \o " step(s).",
                         !.c = enableModelControls(st.c),
                         !.running = Drop(st, k) ]
        ELSE testPass(st, h, k, hookThrows, fallen)

\* The click handler of the delete control, ui.ts lines 180-186, up to its
\* first parking: on removeModel when policyNet refers to an object, on
\* updateUIControlState otherwise.
deleteClick(st, confirmed) ==
    IF ~confirmed
    THEN st
    ELSE IF IsNullish(st.net)
    THEN [ st EXCEPT !.net = "null",
                     !.running = Put(st, Handler("delete", "uiControls", 0, 0, 0), 0) ]
    ELSE [ st EXCEPT !.running = Put(st, Handler("delete", "removing", 0, 0, 0), 0) ]

\* The delete handler once removeModel has answered, lines 182-184.
deleteResume(st, k, removal) ==
    IF st.stored = NoModel /\ removal = "rejects"
    THEN [ st EXCEPT !.running = Drop(st, k) ]
    ELSE [ st EXCEPT !.stored = NoModel,
                     !.net = "null",
                     !.running[k] = [ @ EXCEPT !.at = "uiControls" ] ]

\* The click handler of the create control, ui.ts lines 157-178, up to its
\* parking on updateUIControlState.
createClick(st, validSizes, language) ==
    IF ~validSizes
    THEN [ st EXCEPT !.status = "ERROR: Invalid hidden layer sizes string" ]
    ELSE LET made == SaveablePolicyNetworkNew("neither", "strict", language)
         IN  IF made.result = "constructed"
             THEN [ st EXCEPT !.net = made.net.kind,
                              !.running =
                                Put(st, Handler("create", "uiControls", 0, 0, 0), 0) ]
             ELSE [ st EXCEPT !.status = "ERROR: " \o made.result ]

\* The delete or the create handler once checkStoredModelStatus has
\* answered: the rest of updateUIControlState.
controlsResume(st, k) ==
    [ st EXCEPT !.c = updateUIControlState(st.c, st.stored, st.net),
                !.running = Drop(st, k) ]

\* The page becomes st.
Becomes(st) ==
    /\ trainButtonText' = st.c.text
    /\ trainDisabled' = st.c.train
    /\ testDisabled' = st.c.test
    /\ deleteDisabled' = st.c.delete
    /\ createDisabled' = st.c.create
    /\ appStatus' = st.status
    /\ stopRequested' = st.stop
    /\ storedModel' = st.stored
    /\ policyNet' = st.net
    /\ running' = st.running
    /\ weights' = st.weights
    /\ UNCHANGED << simVars, currentActions_, pc, argVars, frameVars, hpc,
                    iteration, trainIterations, gamesPerIteration,
                    maxStepsInput, renderDuringTraining, obsVars, simLabVars,
                    cartVars, roundVars, envVars, numTensors, apiVars >>

\* The optimizer updates still to come from the train handlers parked.
RECURSIVE PendingUpdates(_)
PendingUpdates(q) ==
    IF q = << >> THEN 0
    ELSE (IF Head(q).kind = "train"
          THEN Head(q).n - Head(q).i - (IF Head(q).at = "inTrain" THEN 0 ELSE 1)
          ELSE 0) + PendingUpdates(Tail(q))

\* setUpUI, ui.ts lines 143-151, has run: with a model in the store it has
\* loaded it into policyNet, with none policyNet is undefined; and
\* updateUIControlState has set the controls.
UiInit ==
    /\ InitRest
    /\ learningRate = 5 * 10
    /\ canvasContext \in {Context2d, NoContext}
    /\ caller = "ui"
    /\ \E r \in RandomVectors : cartPole = CartPoleNew(r)
    /\ simPrev = cartPole
    /\ twin = cartPole
    /\ running = << >>
    /\ storedModel \in {NoModel, << 0 >>}
    /\ policyNet = IF storedModel = NoModel THEN "undefined" ELSE "built"
    /\ trainDisabled = IsNullish(policyNet)
    /\ testDisabled = IsNullish(policyNet)
    /\ deleteDisabled = (storedModel = NoModel)
    /\ createDisabled = ~IsNullish(policyNet)

\* A click on the train control.
UiTrainClick ==
    /\ ~trainDisabled
    /\ \E nIter \in IterationInputs :
         /\ trainButtonText = "Train" =>
                /\ Len(running) < MaxInFlight
                /\ weights + PendingUpdates(running) + nIter <= MaxUpdates
         /\ Becomes(trainClick(Page, nIter, HookThrows))

\* A train handler goes on from its await.
UiTrainResume ==
    \E k \in DOMAIN running :
      /\ running[k].kind = "train"
      /\ Becomes(trainResume(Page, k, HookThrows))

\* A click on the test control.
UiTestClick ==
    /\ ~testDisabled
    /\ Len(running) < MaxInFlight
    /\ \E fallen \in BOOLEAN : Becomes(testClick(Page, HookThrows, fallen))

\* A test handler goes on from its await.
UiTestResume ==
    \E k \in DOMAIN running :
      /\ running[k].kind = "test"
      /\ \E fallen \in IF running[k].i + 1 < MaxTestSteps THEN BOOLEAN ELSE {TRUE} :
           Becomes(testResume(Page, k, HookThrows, fallen))

\* A click on the delete control, and the answer to its confirm().
UiDeleteClick ==
    /\ ~deleteDisabled
    /\ Len(running) < MaxInFlight
    /\ \E confirmed \in BOOLEAN : Becomes(deleteClick(Page, confirmed))

\* A delete handler goes on from removeModel.
UiDeleteResume ==
    \E k \in DOMAIN running :
      /\ running[k].kind = "delete"
      /\ running[k].at = "removing"
      /\ \E removal \in Removals : Becomes(deleteResume(Page, k, removal))

\* A click on the create control.
UiCreateClick ==
    /\ ~createDisabled
    /\ Len(running) < MaxInFlight
    /\ \E validSizes \in BOOLEAN, language \in Languages :
         Becomes(createClick(Page, validSizes, language))

\* A delete or a create handler goes on from updateUIControlState.
UiControlsResume ==
    \E k \in DOMAIN running :
      /\ running[k].kind \in {"delete", "create"}
      /\ running[k].at = "uiControls"
      /\ Becomes(controlsResume(Page, k))

UiNext ==
    \/ UiTrainClick
    \/ UiTrainResume
    \/ UiTestClick
    \/ UiTestResume
    \/ UiDeleteClick
    \/ UiDeleteResume
    \/ UiCreateClick
    \/ UiControlsResume

UiSpec == UiInit /\ [][UiNext]_vars

(***************************************************************************)
(* Properties of PolicyNetwork.train.                                      *)
(***************************************************************************)
\* The episode has ended (by a failure or by the step cap) and is not yet
\* replaced by the next one.
Terminal ==
    \/ pc = "gameEnd"
    \/ pc = "stepLoop" /\ j >= maxStepsPerGame
    \/ pc = "awaitFrame"

\* An episode is being played.
InEpisode == pc \in {"stepLoop", "awaitRender", "gameEnd", "awaitFrame"}

\* train has returned to its caller.
Returned == pc \in {"returned", "trained"}

\* C1: when an episode has reached Terminal, the number of rewards recorded
\* equals the number of calls of update made in the episode, and every
\* variable of the policy has that many gradient snapshots recorded.
C1_RewardsAndGradientsMatchSteps ==
    Terminal =>
        /\ Len(gameRewards) = updateCalls
        /\ DOMAIN gameGradients = VarNames
        /\ \A v \in VarNames : Len(gameGradients[v]) = updateCalls

\* An episode of several steps that ended on a failure.
C1_Witness ==
    /\ Terminal
    /\ done
    /\ updateCalls >= 2
    /\ Len(gameRewards) = updateCalls

\* All the rewards of q but the last are 1, and the last is 0 or 1.
OnesThenLast(q) ==
    /\ \A k \in 1 .. Len(q) - 1 : q[k] = 1
    /\ Len(q) > 0 => q[Len(q)] \in {0, 1}

\* C2: every step that is not a failure records reward 1, a failure records
\* reward 0 and ends the episode: a reward sequence is all 1s but possibly
\* its last element, which is 0 exactly when update returned true on the
\* final step.
C2_RewardsFollowDone ==
    /\ OnesThenLast(gameRewards)
    /\ \A g \in 1 .. Len(allRewards) : OnesThenLast(allRewards[g])
    /\ (Terminal /\ Len(gameRewards) > 0) =>
           (gameRewards[Len(gameRewards)] = 0 <=> done)
    /\ (pc \in {"stepLoop", "awaitRender"} /\ ~Terminal) =>
           \A k \in 1 .. Len(gameRewards) : gameRewards[k] = 1

\* An episode ended by a failure before the step cap was reached.
C2_Witness ==
    /\ pc = "gameEnd"
    /\ done
    /\ Len(gameRewards) < maxStepsPerGame
    /\ Len(gameRewards) >= 2
    /\ gameRewards[Len(gameRewards)] = 0

\* C3: train returns a list of numGames step counts, in the order of the
\* games, each the length of that game's reward sequence and between 1 and
\* maxStepsPerGame; with maxStepsPerGame = 1 every entry is 1.
C3_StepCountsReturned ==
    Returned =>
        /\ Len(gameSteps) = numGames
        /\ Len(allRewards) = numGames
        /\ \A g \in 1 .. numGames :
             /\ gameSteps[g] = Len(allRewards[g])
             /\ gameSteps[g] >= 1
             /\ gameSteps[g] <= maxStepsPerGame
             /\ maxStepsPerGame = 1 => gameSteps[g] = 1

\* A round of two games of different lengths, the first ended by a failure.
C3_Witness ==
    /\ pc = "returned"
    /\ numGames = 2
    /\ gameSteps[1] < gameSteps[2]
    /\ allRewards[1][gameSteps[1]] = 0

\* C4: the weights change only by the optimizer update of the round, which
\* follows the last episode; there is exactly one per call of train, and
\* none while an episode is being played.
C4_OneUpdateAfterLastEpisode ==
    /\ [][ weights' # weights =>
             /\ pc = "gameLoop"
             /\ i = numGames
             /\ Len(gameSteps) = numGames
             /\ Returned'
             /\ weights' = weights + 1 ]_vars
    /\ [](InEpisode => optimizerCalls = 0)
    /\ [](Returned => optimizerCalls = 1)

\* The second call of train has returned, after a round of two games.
C4_Witness ==
    /\ pc = "returned"
    /\ calls = 2
    /\ numGames = 2
    /\ weights = 2
    /\ optimizerCalls = 1

\* C6: setRandomState is called once per episode, before its first step, and
\* the episode's record holds only its own rewards and gradients: it is empty
\* when the episode starts.
C6_EpisodeStartsFresh ==
    /\ InEpisode => resetCalls = i + 1
    /\ pc = "gameLoop" => resetCalls = i
    /\ InEpisode => Len(gameRewards) <= updateCalls
    /\ (pc = "stepLoop" /\ updateCalls = 0) =>
           /\ j = 0
           /\ gameRewards = <<>>
           /\ gameGradients = EmptyRecord
    /\ InEpisode =>
           \A v \in DOMAIN gameGradients :
               \A k \in 1 .. Len(gameGradients[v]) :
                   gameGradients[v][k] = [ game |-> i, step |-> k - 1 ]

\* The second episode of a round starts.
C6_Witness ==
    /\ pc = "stepLoop"
    /\ i = 1
    /\ updateCalls = 0
    /\ Len(allRewards) = 1
    /\ Len(allRewards[1]) >= 2
    /\ gameRewards = <<>>

\* C7: train is suspended only on the render hook, once per call of update
\* and after it, and on a frame, once per completed episode.
C7_YieldsAfterStepAndEpisode ==
    /\ renderAwaits = totalUpdates
    /\ pc = "awaitRender" => updateCalls = Len(gameRewards) + 1
    /\ pc # "awaitRender" => (InEpisode => updateCalls = Len(gameRewards))
    /\ (InEpisode \/ pc = "gameLoop" \/ Returned) => frameAwaits = Len(gameSteps)
    /\ pc = "awaitFrame" => Len(gameSteps) = i + 1
    /\ (InEpisode /\ pc # "awaitFrame") => Len(gameSteps) = i
    /\ Returned =>
           /\ renderAwaits = SumSeq(gameSteps)
           /\ frameAwaits = numGames

\* A round of two games has returned; its last step was a failure.
C7_Witness ==
    /\ pc = "returned"
    /\ numGames = 2
    /\ done
    /\ renderAwaits = SumSeq(gameSteps)
    /\ renderAwaits >= 4
    /\ frameAwaits = 2

(***************************************************************************)
(* Properties of the train control.                                        *)
(***************************************************************************)
\* The handler of the train control has left the call of train.
LeftTrain == hpc \in {"uiFrame", "uiSave", "uiControls", "iterLoop", "idle"}

\* C5: a stop requested while a call of train is in flight does not cut the
\* call short: whenever the handler has left that call, and so when the loop
\* exits, every game of the round has been played and the optimizer update
\* of the round applied.
C5_StopWaitsForIteration ==
    (stopInFlight /\ LeftTrain) =>
        /\ resetCalls = gamesPerIteration
        /\ frameAwaits = gamesPerIteration
        /\ optimizerCalls = 1

\* The loop has exited on a stop that was requested with games left to play.
C5_Witness ==
    /\ stopInFlight
    /\ stopGamesLeft >= 2
    /\ hpc = "idle"
    /\ appStatus = "Training stopped by user."
    /\ frameAwaits = gamesPerIteration

(***************************************************************************)
(* Properties of the simulator.                                            *)
(***************************************************************************)
\* C8: update returns a boolean, and returns true exactly when the state it
\* has just advanced to has its position strictly outside
\* [-xThreshold, xThreshold] or its angle strictly outside
\* [-thetaThreshold, thetaThreshold].
C8_DoneIffOutOfBounds ==
    simCalls > 0 =>
        /\ done \in BOOLEAN
        /\ done <=> ( \/ cartPole.x < -cartPole.xThreshold
                      \/ cartPole.x > cartPole.xThreshold
                      \/ cartPole.theta < -cartPole.thetaThreshold
                      \/ cartPole.theta > cartPole.thetaThreshold )

\* A step from a state inside the bounds to a state outside them.
C8_Witness ==
    /\ simCalls > 0
    /\ done
    /\ simPrev.x <= simPrev.xThreshold
    /\ simPrev.x >= -simPrev.xThreshold
    /\ simPrev.theta <= simPrev.thetaThreshold
    /\ simPrev.theta >= -simPrev.thetaThreshold

\* C9 as stated: from a position Eps beyond the threshold, with any values of
\* the other three state variables, update returns true.
C9_DoneFromBeyondThreshold ==
    (simCalls > 0 /\ simPrev.x = simPrev.xThreshold + Eps) => done

\* C9, amended: from a position Eps beyond the threshold and a cart velocity
\* that is not negative, with any pole angle and angular velocity, update
\* returns true whatever the action.
C9_DoneFromBeyondThresholdMovingOut ==
    (simCalls > 0 /\ simPrev.x = simPrev.xThreshold + Eps /\ simPrev.xDot >= 0)
        => done

\* Such a step, with the pole inside its bounds before and after.
C9_Witness ==
    /\ simCalls > 0
    /\ simPrev.x = simPrev.xThreshold + Eps
    /\ simPrev.xDot >= 0
    /\ simPrev.theta = 0
    /\ cartPole.theta <= cartPole.thetaThreshold
    /\ cartPole.theta >= -cartPole.thetaThreshold
    /\ done

ConstantsOf(s) ==
    << s.gravity, s.massCart, s.massPole, s.totalMass, s.cartWidth,
       s.cartHeight, s.length, s.poleMoment, s.forceMag, s.tau,
       s.xThreshold, s.thetaThreshold >>

\* C11: no method changes a constant or a threshold of the simulator, and a
\* call of getStateTensor or of render leaves x, xDot, theta and thetaDot as
\* they were: a step that changes one of the four is a call of
\* setRandomState or of update.
C11_OnlyResetAndStepChangeState ==
    [][ /\ ConstantsOf(cartPole') = ConstantsOf(cartPole)
        /\ lastCall' \in {"getStateTensor", "render"} =>
               getStateTensor(cartPole') = getStateTensor(cartPole)
        /\ getStateTensor(cartPole') # getStateTensor(cartPole) =>
               lastCall' \in {"setRandomState", "update"} ]_vars

\* A frame drawn of a state that two calls of update have led to, and that
\* state is still the one drawn.
C11_Witness ==
    /\ lastCall = "render"
    /\ simCalls >= 2
    /\ canvas.frame = Frame(cartPole)
    /\ canvas.display = "block"
    /\ getStateTensor(cartPole) # getStateTensor(simPrev)

(***************************************************************************)
(* Properties of the reward processor and of the gradient aggregator.      *)
(***************************************************************************)
\* The round has computed its discounted rewards.
Discounted == pc = "returned"

\* C12: discountRewards returns a sequence of the length of the rewards; its
\* last element is the last reward, and every other element is its reward
\* plus the discount rate times the next element.  Every game of the round
\* is discounted on its own: from its rewards and from nothing else.
C12_DiscountedRecurrence ==
    Discounted =>
        /\ Len(discounted) = Len(allRewards)
        /\ \A g \in 1 .. Len(allRewards) :
             LET rewards == allRewards[g]
                 last    == Len(rewards)
             IN  /\ Len(discounted[g]) = last
                 /\ discounted[g][last] = rewards[last] * Scale
                 /\ \A s \in 1 .. last - 1 :
                      discounted[g][s] =
                          rewards[s] * Scale + Mul(discountRate, discounted[g][s + 1])
        /\ \A g, h \in 1 .. Len(allRewards) :
             allRewards[g] = allRewards[h] => discounted[g] = discounted[h]

\* A round of two games, one of them of two steps that ended on a failure.
C12_Witness ==
    /\ Discounted
    /\ Len(allRewards) = 2
    /\ \E g \in 1 .. 2 :
         /\ allRewards[g] = << 1, 0 >>
         /\ discounted[g] = << Scale, 0 >>
    /\ \E g \in 1 .. 2 :
         /\ allRewards[g] = << 1, 1 >>
         /\ discounted[g][1] = Scale + discountRate

\* The game and the step of the n-th step of the round, the games laid end
\* to end.
RECURSIVE GameOfStep(_, _)
GameOfStep(n, g) ==
    IF n <= gameSteps[g] THEN << g, n >> ELSE GameOfStep(n - gameSteps[g], g + 1)

\* The snapshot of variable v at the n-th step of the round, times the
\* normalized reward of that step.
StepProduct(v, n) ==
    LET at == GameOfStep(n, 1)
    IN  FMul(normalizedRewards[at[1]][at[2]], allGradients[v][at[1]][at[2]])

\* scaleAndAverageGradients has returned.
Aggregated == pc \in {"returned", "called"}

\* C13: the aggregate gradient of a variable is the mean, over all the steps
\* of all the games of the round, of the normalized reward of the step times
\* the gradient snapshot of the step.  With one game of one step it is that
\* one product.
C13_AggregateIsMeanOfProducts ==
    Aggregated =>
        /\ DOMAIN optimizerInput = VarNames
        /\ \A v \in VarNames :
             /\ optimizerInput[v] =
                    FMean([ n \in 1 .. SumSeq(gameSteps) |-> StepProduct(v, n) ])
             /\ gameSteps = << 1 >> =>
                    optimizerInput[v] =
                        FMul(normalizedRewards[1][1], allGradients[v][1][1])

\* A round of a game of two steps and a game of one step, with an aggregate
\* that is finite and not 0.
C13_Witness ==
    /\ pc = "returned"
    /\ gameSteps = << 2, 1 >>
    /\ optimizerInput["kernel"].kind = "fin"
    /\ optimizerInput["kernel"].val # 0
    /\ optimizerInput["bias"].val # 0

\* All the discounted rewards of the round are one and the same number.
ZeroVariance ==
    \A g, h \in 1 .. Len(discounted) :
      \A s \in 1 .. Len(discounted[g]), t \in 1 .. Len(discounted[h]) :
        discounted[g][s] = discounted[h][t]

\* C14: when the discounted rewards of a round have zero variance, train
\* does not notice: the normalization divides by a standard deviation of 0,
\* the normalized rewards are not finite and neither are the gradients they
\* scale, the optimizer update is applied all the same, and train returns
\* the list of step counts.
C14_ZeroVarianceGoesThrough ==
    (pc = "returned" /\ ZeroVariance) =>
        /\ \A g \in 1 .. Len(normalizedRewards) :
             \A s \in 1 .. Len(normalizedRewards[g]) :
               normalizedRewards[g][s].kind # "fin"
        /\ \A v \in VarNames : optimizerInput[v].kind # "fin"
        /\ optimizerCalls = 1
        /\ weights = 1
        /\ gameSteps = [ g \in 1 .. Len(allRewards) |-> Len(allRewards[g]) ]

\* A round of two games of one step that did not fail.
C14_Witness ==
    /\ pc = "returned"
    /\ allRewards = << << 1 >>, << 1 >> >>
    /\ ZeroVariance
    /\ optimizerInput["kernel"] = NaN
    /\ optimizerCalls = 1

(***************************************************************************)
(* Properties of the construction and of the model store.                  *)
(***************************************************************************)
\* C15: a construction of the policy network with neither the hidden layer
\* sizes nor a saved model, or with both, is rejected: it ends in an error
\* and not in an object.
C15_NeitherOrBothRejected ==
    (/\ outcome.call = "SaveablePolicyNetwork"
     /\ outcome.supplied \in {"neither", "both"}) =>
        outcome.result # "constructed"

\* C19: loadModel called while no model is stored throws its error and makes
\* no network, and throws that error in no other case;
\* checkStoredModelStatus throws in neither case, and returns undefined for
\* an absent entry and the model info for a present one.
C19_AbsentModelOutcomes ==
    [][ /\ outcome'.call = "loadModel" =>
               /\ storedModel = NoModel <=> outcome'.result = CannotFindModel
               /\ storedModel = NoModel => net' = net
        /\ outcome'.call = "checkStoredModelStatus" =>
               /\ net' = net
               /\ storedModel = NoModel => outcome'.result = "undefined"
               /\ storedModel # NoModel => outcome'.result = "modelInfo" ]_vars

\* loadModel has thrown for want of a stored model, a network having been
\* made and its model removed from the store before.
C19_Witness ==
    /\ outcome.call = "loadModel"
    /\ outcome.result = CannotFindModel
    /\ storedModel = NoModel
    /\ net.kind = "built"

(***************************************************************************)
(* Properties of the train control's checks.                               *)
(***************************************************************************)
\* What the page shows when a check of an input of the train control fails.
InvalidInputErrors ==
    { "ERROR: Invalid number of iterations: 0",
      "ERROR: Invalid # of games per iterations: 0",
      "ERROR: Invalid max. steps per game: 1",
      "ERROR: Invalid discount rate: 0",
      "ERROR: Invalid discount rate: 1" }

\* C16: a click on the train control with a number of iterations or of games
\* that is not > 0, a step cap that is not > 1 or a discount rate that is
\* not strictly between 0 and 1 reports an error and ends there: train is
\* not called, no game is started, no step is made, the optimizer is not
\* called and the weights are unchanged.  train runs only for inputs that
\* pass the four checks.
C16_InvalidInputFailsBeforeWork ==
    /\ [][ (/\ hpc = "idle"
            /\ trainButtonText = "Train"
            /\ appStatus' \in InvalidInputErrors) =>
               /\ hpc' = "idle"
               /\ pc' = pc
               /\ UNCHANGED << weights, cartPole, calls, resetCalls,
                               totalUpdates, optimizerCalls, storedModel >> ]_vars
    /\ [](hpc # "idle" =>
              /\ trainIterations > 0
              /\ gamesPerIteration > 0
              /\ maxStepsInput > 1
              /\ discountRate > 0 /\ discountRate < Scale)

\* An invalid discount rate reported after a training that was completed.
C16_Witness ==
    /\ appStatus = "ERROR: Invalid discount rate: 1"
    /\ hpc = "idle"
    /\ weights >= 1
    /\ trainButtonText = "Train"

(***************************************************************************)
(* Properties of the page in any environment.                              *)
(***************************************************************************)
\* C17: with a learning rate that is not positive a click on the train
\* control fails at its checks: the handler goes no further, no game is
\* started and no step is made.
C17_NoEpisodeWithBadLearningRate ==
    ~(learningRate > 0) =>
        /\ hpc = "idle"
        /\ resetCalls = 0
        /\ totalUpdates = 0

\* C18: when the render hook has failed on a step of a call of train, the
\* call is not abandoned: when the click handler leaves it, all its games
\* have been played and its optimizer update has been applied.
C18_RenderFailureDoesNotAbort ==
    [][ (/\ renderFailures > 0
         /\ hpc = "inTrain"
         /\ hpc' # "inTrain") =>
            /\ resetCalls = numGames
            /\ optimizerCalls = 1 ]_vars

\* C20: whenever no call of train is in progress, no gradient snapshot of a
\* call that has ended is held.
C20_NoSnapshotHeldAfterTrain ==
    pc \in {"idle", "trained", "returned"} => numTensors = 0

(***************************************************************************)
(* Properties of the accumulators of a round.                              *)
(***************************************************************************)
\* A call of train has set up its accumulators and has not been replaced by
\* the next call.
InRound == pc \in {"gameLoop", "stepLoop", "awaitRender", "gameEnd",
                   "awaitFrame", "returned"}

\* The games of the round that have been folded into the round: all the
\* games started, but the one that is being played.
CompletedGames ==
    IF pc \in {"stepLoop", "awaitRender", "gameEnd"}
    THEN resetCalls - 1
    ELSE resetCalls

\* The gradient sequences the round holds for variable v.
GradientSequences(v) ==
    IF v \in DOMAIN allGradients THEN allGradients[v] ELSE << >>

\* C21: after k games of a round have completed, allRewards holds k reward
\* sequences and allGradients holds, for every variable, k gradient
\* sequences, in the order of the games; the g-th gradient sequence of every
\* variable is as long as the g-th reward sequence, and holds the gradients
\* of the steps of game g in the order of the steps.
C21_AccumulatorsParallel ==
    InRound =>
        /\ Len(allRewards) = CompletedGames
        /\ \A v \in VarNames :
             /\ Len(GradientSequences(v)) = CompletedGames
             /\ \A g \in 1 .. CompletedGames :
                  /\ Len(GradientSequences(v)[g]) = Len(allRewards[g])
                  /\ \A s \in 1 .. Len(allRewards[g]) :
                       GradientSequences(v)[g][s] = [ game |-> g - 1, step |-> s - 1 ]

\* Two games completed, of different numbers of steps.
C21_Witness ==
    /\ InRound
    /\ CompletedGames = 2
    /\ Len(allRewards[1]) # Len(allRewards[2])
    /\ Len(allGradients["kernel"][2]) >= 2


(***************************************************************************)
(* Properties of the controls of the page.                                 *)
(***************************************************************************)
\* The train handlers parked.
Training == { k \in DOMAIN running : running[k].kind = "train" }

\* The iterations a parked train handler has completed: the calls of train
\* that have returned to it.
Completed(h) == h.i + (IF h.at = "inTrain" THEN 0 ELSE 1)

\* The k-th parked handler ends in this step.
Exits(k) == running' = RemoveAt(running, k)

\* C22: the network is saved at the end of every completed iteration, and
\* before the stop flag is examined: when the loop of a train handler
\* exits, every iteration it has completed has been saved.
C22_CompletedIterationsSaved ==
    [][ \A k \in Training :
          Exits(k) => running[k].saved = Completed(running[k]) ]_vars

\* C23: at most one training loop is active at a time: whatever the order
\* of the clicks on the four controls, a click on the train control while
\* a training loop is in flight starts no second loop.
C23_OneTrainingLoop == Cardinality(Training) <= 1

\* C24: from the start of a training run to its end the test control and
\* the delete control stay disabled.
C24_DisabledWhileTraining ==
    Training # {} => testDisabled /\ deleteDisabled

\* C25: a stop request raised during training is not lost: no action of
\* the page clears it while the training loop it was raised for is still
\* in flight.
C25_StopRequestKept ==
    [][ stopRequested /\ Training # {} =>
          stopRequested' \/ Cardinality(Training') < Cardinality(Training) ]_vars

\* C26: the train control and the test control are enabled only while
\* policyNet refers to a network, so that neither handler runs without one.
C26_EnabledOnlyWithNetwork ==
    ~trainDisabled \/ ~testDisabled => ~IsNullish(policyNet)

\* C27: the delete control is enabled only while the store holds a model.
C27_DeleteOnlyWithStoredModel ==
    ~deleteDisabled => storedModel # NoModel

\* C28: a run that disables the controls enables them again on every path:
\* once no handler is in flight the train control reads 'Train' and the
\* controls are not left as disableModelControls set them.
C28_ControlsRestored ==
    running = << >> => trainButtonText = "Train"
=========================================================================
